---------------------------- MODULE Spec2Model ----------------------------
(***************************************************************************)
(* ScriptlyX: the Latin <-> Cyrillic transliteration core (generic         *)
(* Russian-style scheme and Uzbek scheme), the converter registry and      *)
(* the convert facade.                                                      *)
(*                                                                         *)
(* A JavaScript string is modelled as a sequence of UTF-16 code units      *)
(* (every character of the mapping tables is in the Basic Multilingual     *)
(* Plane, so a code unit is a code point).  A JavaScript Map is modelled   *)
(* as a sequence of [key, value] entries in insertion order, which is the  *)
(* order Map.prototype.keys and Map.prototype.values iterate in.           *)
(***************************************************************************)
EXTENDS Integers, Sequences, FiniteSets, TLC

(***************************************************************************)
(* Bounds of the model.                                                    *)
(***************************************************************************)
\* longest text enumerated exhaustively over Alphabet
MaxLen == 3
\* registerConverter calls made after the built-in registrations
MaxRegs == 2

\* characters of the longest exhaustively mixed text given to analyzeScript
MaxLetters == 10

\* the most saveSettings calls of one popup session
MaxSaves == 2

(***************************************************************************)
(* String.prototype.toLowerCase / toUpperCase on one code unit, for the    *)
(* Basic Latin block and the Cyrillic block U+0400..U+04BF.  Every other   *)
(* code unit the model uses (digits, space, apostrophe, double quote) has  *)
(* no case mapping.                                                        *)
(***************************************************************************)
toLowerCaseUnit(c) ==
    IF c \in 65..90 THEN c + 32                       \* A-Z
    ELSE IF c \in 1024..1039 THEN c + 80              \* U+0400..U+040F
    ELSE IF c \in 1040..1071 THEN c + 32              \* U+0410..U+042F
    ELSE IF c \in 1120..1153 /\ c % 2 = 0 THEN c + 1  \* U+0460..U+0481
    ELSE IF c \in 1162..1215 /\ c % 2 = 0 THEN c + 1  \* U+048A..U+04BF
    ELSE c

toUpperCaseUnit(c) ==
    IF c \in 97..122 THEN c - 32                      \* a-z
    ELSE IF c \in 1104..1119 THEN c - 80              \* U+0450..U+045F
    ELSE IF c \in 1072..1103 THEN c - 32              \* U+0430..U+044F
    ELSE IF c \in 1120..1153 /\ c % 2 = 1 THEN c - 1
    ELSE IF c \in 1162..1215 /\ c % 2 = 1 THEN c - 1
    ELSE c

toLowerCase(s) == [k \in 1..Len(s) |-> toLowerCaseUnit(s[k])]

toUpperCase(s) == [k \in 1..Len(s) |-> toUpperCaseUnit(s[k])]

\* String.prototype.substring(from, to) with 0 <= from <= to: the code units
\* at the 0-based positions from .. to-1, clipped to the length of the text.
substring(s, from, to) ==
    LET hi == IF to < Len(s) THEN to ELSE Len(s)
    IN  IF from >= hi THEN << >> ELSE SubSeq(s, from + 1, hi)

\* String.prototype.slice(from) with from >= 0
slice(s, from) == substring(s, from, Len(s))

(***************************************************************************)
(* Map: entries in insertion order.  set on a present key replaces the     *)
(* value and keeps the entry's position; set on an absent key appends.     *)
(***************************************************************************)
MapHas(m, k) == \E n \in 1..Len(m) : m[n].key = k

MapGet(m, k) == m[CHOOSE n \in 1..Len(m) : m[n].key = k].value

MapSet(m, k, v) ==
    IF MapHas(m, k)
    THEN [n \in 1..Len(m) |-> IF m[n].key = k THEN [key |-> k, value |-> v] ELSE m[n]]
    ELSE Append(m, [key |-> k, value |-> v])

MapKeys(m) == [n \in 1..Len(m) |-> m[n].key]

MapValues(m) == [n \in 1..Len(m) |-> m[n].value]

\* The Map left by  for (e of entries) map.set(e.key, e.value)  on an empty
\* map, in closed form: one entry per distinct key, at the position of the
\* key's first set, holding the value of the key's last set.
MapOfSets(entries) ==
    LET N      == Len(entries)
        firsts == SelectSeq([n \in 1..N |-> n],
                            LAMBDA n : \A m \in 1..(n - 1) : entries[m].key # entries[n].key)
        last(k) == CHOOSE m \in 1..N :
                      /\ entries[m].key = k
                      /\ \A m2 \in (m + 1)..N : entries[m2].key # k
    IN  [j \in 1..Len(firsts) |->
            [key |-> entries[firsts[j]].key,
             value |-> entries[last(entries[firsts[j]].key)].value]]

(***************************************************************************)
(* Generic (Russian-style) scheme.                                         *)
(***************************************************************************)
LATIN_CYRILLIC_MAP ==
    <<
       [latin |-> <<115, 104, 99, 104>>, cyrillic |-> <<1097>>],  \* 's' 'h' 'c' 'h' -> U+0449
       [latin |-> <<121, 111>>, cyrillic |-> <<1105>>],  \* 'y' 'o' -> U+0451
       [latin |-> <<122, 104>>, cyrillic |-> <<1078>>],  \* 'z' 'h' -> U+0436
       [latin |-> <<107, 104>>, cyrillic |-> <<1093>>],  \* 'k' 'h' -> U+0445
       [latin |-> <<116, 115>>, cyrillic |-> <<1094>>],  \* 't' 's' -> U+0446
       [latin |-> <<99, 104>>, cyrillic |-> <<1095>>],  \* 'c' 'h' -> U+0447
       [latin |-> <<115, 104>>, cyrillic |-> <<1096>>],  \* 's' 'h' -> U+0448
       [latin |-> <<121, 117>>, cyrillic |-> <<1102>>],  \* 'y' 'u' -> U+044E
       [latin |-> <<121, 97>>, cyrillic |-> <<1103>>],  \* 'y' 'a' -> U+044F
       [latin |-> <<121, 101>>, cyrillic |-> <<1101>>],  \* 'y' 'e' -> U+044D
       [latin |-> <<121, 39>>, cyrillic |-> <<1099>>],  \* 'y' ''' -> U+044B
       [latin |-> <<34>>, cyrillic |-> <<1098>>],  \* '"' -> U+044A
       [latin |-> <<39>>, cyrillic |-> <<1100>>],  \* ''' -> U+044C
       [latin |-> <<97>>, cyrillic |-> <<1072>>],  \* 'a' -> U+0430
       [latin |-> <<98>>, cyrillic |-> <<1073>>],  \* 'b' -> U+0431
       [latin |-> <<118>>, cyrillic |-> <<1074>>],  \* 'v' -> U+0432
       [latin |-> <<103>>, cyrillic |-> <<1075>>],  \* 'g' -> U+0433
       [latin |-> <<100>>, cyrillic |-> <<1076>>],  \* 'd' -> U+0434
       [latin |-> <<101>>, cyrillic |-> <<1077>>],  \* 'e' -> U+0435
       [latin |-> <<122>>, cyrillic |-> <<1079>>],  \* 'z' -> U+0437
       [latin |-> <<105>>, cyrillic |-> <<1080>>],  \* 'i' -> U+0438
       [latin |-> <<121>>, cyrillic |-> <<1081>>],  \* 'y' -> U+0439
       [latin |-> <<107>>, cyrillic |-> <<1082>>],  \* 'k' -> U+043A
       [latin |-> <<108>>, cyrillic |-> <<1083>>],  \* 'l' -> U+043B
       [latin |-> <<109>>, cyrillic |-> <<1084>>],  \* 'm' -> U+043C
       [latin |-> <<110>>, cyrillic |-> <<1085>>],  \* 'n' -> U+043D
       [latin |-> <<111>>, cyrillic |-> <<1086>>],  \* 'o' -> U+043E
       [latin |-> <<112>>, cyrillic |-> <<1087>>],  \* 'p' -> U+043F
       [latin |-> <<114>>, cyrillic |-> <<1088>>],  \* 'r' -> U+0440
       [latin |-> <<115>>, cyrillic |-> <<1089>>],  \* 's' -> U+0441
       [latin |-> <<116>>, cyrillic |-> <<1090>>],  \* 't' -> U+0442
       [latin |-> <<117>>, cyrillic |-> <<1091>>],  \* 'u' -> U+0443
       [latin |-> <<102>>, cyrillic |-> <<1092>>],  \* 'f' -> U+0444
       [latin |-> <<104>>, cyrillic |-> <<1093>>],  \* 'h' -> U+0445
       [latin |-> <<99>>, cyrillic |-> <<1094>>],  \* 'c' -> U+0446
       [latin |-> <<119>>, cyrillic |-> <<1074>>],  \* 'w' -> U+0432
       [latin |-> <<120>>, cyrillic |-> <<1082, 1089>>],  \* 'x' -> U+043A U+0441
       [latin |-> <<113>>, cyrillic |-> <<1082>>]   \* 'q' -> U+043A
    >>

\* for (const { latin, cyrillic } of LATIN_CYRILLIC_MAP) {
\*   latinToCyrillic.set(latin, cyrillic); cyrillicToLatin.set(cyrillic, latin); }
buildLookupMaps_sameDirection ==
    [l2c |-> MapOfSets([n \in 1..Len(LATIN_CYRILLIC_MAP) |->
                 [key |-> LATIN_CYRILLIC_MAP[n].cyrillic,
                  value |-> LATIN_CYRILLIC_MAP[n].latin]]),
     c2l |-> MapOfSets([n \in 1..Len(LATIN_CYRILLIC_MAP) |->
                 [key |-> LATIN_CYRILLIC_MAP[n].cyrillic,
                  value |-> LATIN_CYRILLIC_MAP[n].latin]])]

\* Both maps take every entry of the table, so a later entry with the same key
\* replaces the value an earlier entry stored.
buildLookupMaps ==
    [l2c |-> MapOfSets([n \in 1..Len(LATIN_CYRILLIC_MAP) |->
                 [key |-> LATIN_CYRILLIC_MAP[n].latin,
                  value |-> LATIN_CYRILLIC_MAP[n].cyrillic]]),
     c2l |-> MapOfSets([n \in 1..Len(LATIN_CYRILLIC_MAP) |->
                 [key |-> LATIN_CYRILLIC_MAP[n].cyrillic,
                  value |-> LATIN_CYRILLIC_MAP[n].latin]])]

latinToCyrillic == buildLookupMaps.l2c

cyrillicToLatin == buildLookupMaps.c2l

\* the longest length among the strings of a sequence (0 for none)
MaxLength(keys) ==
    IF Len(keys) = 0 THEN 0
    ELSE LET n == CHOOSE a \in 1..Len(keys) : \A b \in 1..Len(keys) : Len(keys[b]) <= Len(keys[a])
         IN  Len(keys[n])

\* Array.prototype.sort((a, b) => b.length - a.length): a stable sort, so the
\* keys of one length keep their relative (insertion) order.
RECURSIVE sortLongestFirst(_, _)
sortLongestFirst(keys, len) ==
    IF len < 0 THEN << >>
    ELSE SelectSeq(keys, LAMBDA k : Len(k) = len) \o sortLongestFirst(keys, len - 1)

getSortedKeys_unsorted(map) == MapKeys(map)

getSortedKeys(map) == sortLongestFirst(MapKeys(map), MaxLength(MapKeys(map)))

sortedLatinKeys == getSortedKeys(latinToCyrillic)

sortedCyrillicKeys == getSortedKeys(cyrillicToLatin)

isUpperCase(char) == char # toLowerCase(char) /\ char = toUpperCase(char)

matchCase_firstOnly(source, target) ==
    IF Len(source) = 0 \/ Len(target) = 0 THEN target
    ELSE IF isUpperCase(<<source[1]>>)
         THEN toUpperCase(<<target[1]>>) \o slice(target, 1)
         ELSE target

matchCase(source, target) ==
    IF Len(source) = 0 \/ Len(target) = 0 THEN target
    ELSE IF source = toUpperCase(source) /\ source # toLowerCase(source)
         THEN toUpperCase(target)
         ELSE IF isUpperCase(<<source[1]>>)
              THEN toUpperCase(<<target[1]>>) \o slice(target, 1)
              ELSE target

(***************************************************************************)
(* Uzbek scheme.                                                           *)
(***************************************************************************)
UZBEK_LATIN_CYRILLIC_MAP_xAsHa ==
    <<
       [latin |-> <<99, 104>>, cyrillic |-> <<1095>>],  \* 'c' 'h' -> U+0447
       [latin |-> <<115, 104>>, cyrillic |-> <<1096>>],  \* 's' 'h' -> U+0448
       [latin |-> <<103, 39>>, cyrillic |-> <<1171>>],  \* 'g' ''' -> U+0493
       [latin |-> <<111, 39>>, cyrillic |-> <<1118>>],  \* 'o' ''' -> U+045E
       [latin |-> <<110, 103>>, cyrillic |-> <<1085, 1075>>],  \* 'n' 'g' -> U+043D U+0433
       [latin |-> <<39>>, cyrillic |-> <<1098>>],  \* ''' -> U+044A
       [latin |-> <<97>>, cyrillic |-> <<1072>>],  \* 'a' -> U+0430
       [latin |-> <<98>>, cyrillic |-> <<1073>>],  \* 'b' -> U+0431
       [latin |-> <<100>>, cyrillic |-> <<1076>>],  \* 'd' -> U+0434
       [latin |-> <<101>>, cyrillic |-> <<1077>>],  \* 'e' -> U+0435
       [latin |-> <<102>>, cyrillic |-> <<1092>>],  \* 'f' -> U+0444
       [latin |-> <<103>>, cyrillic |-> <<1075>>],  \* 'g' -> U+0433
       [latin |-> <<104>>, cyrillic |-> <<1203>>],  \* 'h' -> U+04B3
       [latin |-> <<105>>, cyrillic |-> <<1080>>],  \* 'i' -> U+0438
       [latin |-> <<106>>, cyrillic |-> <<1078>>],  \* 'j' -> U+0436
       [latin |-> <<107>>, cyrillic |-> <<1082>>],  \* 'k' -> U+043A
       [latin |-> <<108>>, cyrillic |-> <<1083>>],  \* 'l' -> U+043B
       [latin |-> <<109>>, cyrillic |-> <<1084>>],  \* 'm' -> U+043C
       [latin |-> <<110>>, cyrillic |-> <<1085>>],  \* 'n' -> U+043D
       [latin |-> <<111>>, cyrillic |-> <<1086>>],  \* 'o' -> U+043E
       [latin |-> <<112>>, cyrillic |-> <<1087>>],  \* 'p' -> U+043F
       [latin |-> <<113>>, cyrillic |-> <<1179>>],  \* 'q' -> U+049B
       [latin |-> <<114>>, cyrillic |-> <<1088>>],  \* 'r' -> U+0440
       [latin |-> <<115>>, cyrillic |-> <<1089>>],  \* 's' -> U+0441
       [latin |-> <<116>>, cyrillic |-> <<1090>>],  \* 't' -> U+0442
       [latin |-> <<117>>, cyrillic |-> <<1091>>],  \* 'u' -> U+0443
       [latin |-> <<118>>, cyrillic |-> <<1074>>],  \* 'v' -> U+0432
       [latin |-> <<120>>, cyrillic |-> <<1203>>],  \* 'x' -> U+04B3
       [latin |-> <<121>>, cyrillic |-> <<1081>>],  \* 'y' -> U+0439
       [latin |-> <<122>>, cyrillic |-> <<1079>>]   \* 'z' -> U+0437
    >>

UZBEK_LATIN_CYRILLIC_MAP ==
    <<
       [latin |-> <<99, 104>>, cyrillic |-> <<1095>>],  \* 'c' 'h' -> U+0447
       [latin |-> <<115, 104>>, cyrillic |-> <<1096>>],  \* 's' 'h' -> U+0448
       [latin |-> <<103, 39>>, cyrillic |-> <<1171>>],  \* 'g' ''' -> U+0493
       [latin |-> <<111, 39>>, cyrillic |-> <<1118>>],  \* 'o' ''' -> U+045E
       [latin |-> <<110, 103>>, cyrillic |-> <<1085, 1075>>],  \* 'n' 'g' -> U+043D U+0433
       [latin |-> <<39>>, cyrillic |-> <<1098>>],  \* ''' -> U+044A
       [latin |-> <<97>>, cyrillic |-> <<1072>>],  \* 'a' -> U+0430
       [latin |-> <<98>>, cyrillic |-> <<1073>>],  \* 'b' -> U+0431
       [latin |-> <<100>>, cyrillic |-> <<1076>>],  \* 'd' -> U+0434
       [latin |-> <<101>>, cyrillic |-> <<1077>>],  \* 'e' -> U+0435
       [latin |-> <<102>>, cyrillic |-> <<1092>>],  \* 'f' -> U+0444
       [latin |-> <<103>>, cyrillic |-> <<1075>>],  \* 'g' -> U+0433
       [latin |-> <<104>>, cyrillic |-> <<1203>>],  \* 'h' -> U+04B3
       [latin |-> <<105>>, cyrillic |-> <<1080>>],  \* 'i' -> U+0438
       [latin |-> <<106>>, cyrillic |-> <<1078>>],  \* 'j' -> U+0436
       [latin |-> <<107>>, cyrillic |-> <<1082>>],  \* 'k' -> U+043A
       [latin |-> <<108>>, cyrillic |-> <<1083>>],  \* 'l' -> U+043B
       [latin |-> <<109>>, cyrillic |-> <<1084>>],  \* 'm' -> U+043C
       [latin |-> <<110>>, cyrillic |-> <<1085>>],  \* 'n' -> U+043D
       [latin |-> <<111>>, cyrillic |-> <<1086>>],  \* 'o' -> U+043E
       [latin |-> <<112>>, cyrillic |-> <<1087>>],  \* 'p' -> U+043F
       [latin |-> <<113>>, cyrillic |-> <<1179>>],  \* 'q' -> U+049B
       [latin |-> <<114>>, cyrillic |-> <<1088>>],  \* 'r' -> U+0440
       [latin |-> <<115>>, cyrillic |-> <<1089>>],  \* 's' -> U+0441
       [latin |-> <<116>>, cyrillic |-> <<1090>>],  \* 't' -> U+0442
       [latin |-> <<117>>, cyrillic |-> <<1091>>],  \* 'u' -> U+0443
       [latin |-> <<118>>, cyrillic |-> <<1074>>],  \* 'v' -> U+0432
       [latin |-> <<120>>, cyrillic |-> <<1093>>],  \* 'x' -> U+0445
       [latin |-> <<121>>, cyrillic |-> <<1081>>],  \* 'y' -> U+0439
       [latin |-> <<122>>, cyrillic |-> <<1079>>]   \* 'z' -> U+0437
    >>

UZBEK_CYRILLIC_TO_LATIN_EXTRAS_homoglyph ==
    <<
       [latin |-> <<121, 101>>, cyrillic |-> <<1077>>],
       [latin |-> <<121, 111>>, cyrillic |-> <<1105>>],
       [latin |-> <<121, 117>>, cyrillic |-> <<1102>>],
       [latin |-> <<121, 1072>>, cyrillic |-> <<1103>>],  \* 'y' U+0430 -> U+044F
       [latin |-> <<116, 115>>, cyrillic |-> <<1094>>],
       [latin |-> <<115, 104, 99, 104>>, cyrillic |-> <<1097>>],
       [latin |-> <<>>, cyrillic |-> <<1100>>],
       [latin |-> <<>>, cyrillic |-> <<1098>>]
    >>

UZBEK_CYRILLIC_TO_LATIN_EXTRAS ==
    <<
       [latin |-> <<121, 101>>, cyrillic |-> <<1077>>],  \* 'y' 'e' -> U+0435
       [latin |-> <<121, 111>>, cyrillic |-> <<1105>>],  \* 'y' 'o' -> U+0451
       [latin |-> <<121, 117>>, cyrillic |-> <<1102>>],  \* 'y' 'u' -> U+044E
       [latin |-> <<121, 97>>, cyrillic |-> <<1103>>],  \* 'y' 'a' -> U+044F
       [latin |-> <<116, 115>>, cyrillic |-> <<1094>>],  \* 't' 's' -> U+0446
       [latin |-> <<115, 104, 99, 104>>, cyrillic |-> <<1097>>],  \* 's' 'h' 'c' 'h' -> U+0449
       [latin |-> <<>>, cyrillic |-> <<1100>>],  \* empty -> U+044C
       [latin |-> <<>>, cyrillic |-> <<1098>>]   \* empty -> U+044A
    >>

\* Main mappings: both maps take every entry of UZBEK_LATIN_CYRILLIC_MAP.
uzbek_mainLoop ==
    [l2c |-> MapOfSets([n \in 1..Len(UZBEK_LATIN_CYRILLIC_MAP) |->
                 [key |-> UZBEK_LATIN_CYRILLIC_MAP[n].latin,
                  value |-> UZBEK_LATIN_CYRILLIC_MAP[n].cyrillic]]),
     c2l |-> MapOfSets([n \in 1..Len(UZBEK_LATIN_CYRILLIC_MAP) |->
                 [key |-> UZBEK_LATIN_CYRILLIC_MAP[n].cyrillic,
                  value |-> UZBEK_LATIN_CYRILLIC_MAP[n].latin]])]

RECURSIVE uzbek_extrasLoop_overwrite(_)
uzbek_extrasLoop_overwrite(n) ==
    IF n = 0 THEN uzbek_mainLoop.c2l
    ELSE LET c2l == uzbek_extrasLoop_overwrite(n - 1)
             e   == UZBEK_CYRILLIC_TO_LATIN_EXTRAS[n]
         IN  MapSet(c2l, e.cyrillic, e.latin)

RECURSIVE uzbek_extrasLoop_skipEmpty(_)
uzbek_extrasLoop_skipEmpty(n) ==
    IF n = 0 THEN uzbek_mainLoop.c2l
    ELSE LET c2l == uzbek_extrasLoop_skipEmpty(n - 1)
             e   == UZBEK_CYRILLIC_TO_LATIN_EXTRAS[n]
         IN  IF e.latin # << >> /\ ~MapHas(c2l, e.cyrillic)
             THEN MapSet(c2l, e.cyrillic, e.latin) ELSE c2l

\* Extra Cyrillic to Latin mappings: cyrillicToLatin after the second loop has
\* taken the first n extras; set only if (!cyrillicToLatin.has(cyrillic)).
RECURSIVE uzbek_extrasLoop(_)
uzbek_extrasLoop(n) ==
    IF n = 0 THEN uzbek_mainLoop.c2l
    ELSE LET c2l == uzbek_extrasLoop(n - 1)
             e   == UZBEK_CYRILLIC_TO_LATIN_EXTRAS[n]
         IN  IF ~MapHas(c2l, e.cyrillic) THEN MapSet(c2l, e.cyrillic, e.latin) ELSE c2l

uzbek_buildLookupMaps ==
    [l2c |-> uzbek_mainLoop.l2c,
     c2l |-> uzbek_extrasLoop(Len(UZBEK_CYRILLIC_TO_LATIN_EXTRAS))]

uzbek_latinToCyrillic == uzbek_buildLookupMaps.l2c

uzbek_cyrillicToLatin == uzbek_buildLookupMaps.c2l

uzbek_getSortedKeys(map) == sortLongestFirst(MapKeys(map), MaxLength(MapKeys(map)))

uzbek_sortedLatinKeys == uzbek_getSortedKeys(uzbek_latinToCyrillic)

uzbek_sortedCyrillicKeys == uzbek_getSortedKeys(uzbek_cyrillicToLatin)

uzbek_isUpperCase(char) == char # toLowerCase(char) /\ char = toUpperCase(char)

uzbek_matchCase(source, target) ==
    IF Len(source) = 0 \/ Len(target) = 0 THEN target
    ELSE IF source = toUpperCase(source) /\ source # toLowerCase(source)
         THEN toUpperCase(target)
         ELSE IF uzbek_isUpperCase(<<source[1]>>)
              THEN toUpperCase(<<target[1]>>) \o slice(target, 1)
              ELSE target

(***************************************************************************)
(* The scan loop shared, statement for statement, by the four converter    *)
(* functions: latinToCyrillicConvert, cyrillicToLatinConvert,              *)
(* uzbekLatinToCyrillic and uzbekCyrillicToLatin.                          *)
(***************************************************************************)
ConverterFns ==
    {"latinToCyrillicConvert", "cyrillicToLatinConvert",
     "uzbekLatinToCyrillic", "uzbekCyrillicToLatin"}

\* the sorted keys the for-loop of function f iterates over
SortedKeysOf(f) ==
    CASE f = "latinToCyrillicConvert" -> sortedLatinKeys
      [] f = "cyrillicToLatinConvert" -> sortedCyrillicKeys
      [] f = "uzbekLatinToCyrillic"   -> uzbek_sortedLatinKeys
      [] f = "uzbekCyrillicToLatin"   -> uzbek_sortedCyrillicKeys

\* the map function f reads the replacement from
LookupOf(f) ==
    CASE f = "latinToCyrillicConvert" -> latinToCyrillic
      [] f = "cyrillicToLatinConvert" -> cyrillicToLatin
      [] f = "uzbekLatinToCyrillic"   -> uzbek_latinToCyrillic
      [] f = "uzbekCyrillicToLatin"   -> uzbek_cyrillicToLatin

\* the matchCase in scope of function f (each file has its own)
MatchCaseOf(f, source, target) ==
    IF f \in {"latinToCyrillicConvert", "cyrillicToLatinConvert"}
    THEN matchCase(source, target)
    ELSE uzbek_matchCase(source, target)

firstMatch_skipEmpty(keys, t, pos) ==
    LET hits == {n \in 1..Len(keys) :
                    /\ Len(keys[n]) > 0
                    /\ toLowerCase(substring(t, pos, pos + Len(keys[n]))) = keys[n]}
    IN  IF hits = {} THEN 0
        ELSE CHOOSE n \in hits : \A m \in hits : n <= m

\* for (const key of sortedKeys) { chunk = text.substring(i, i + key.length);
\*   if (chunk.toLowerCase() === key) { ...; break; } }
\* the position in sortedKeys of the key the loop breaks at, 0 when it ends
\* without a match.
firstMatch(keys, t, pos) ==
    LET hits == {n \in 1..Len(keys) :
                    toLowerCase(substring(t, pos, pos + Len(keys[n]))) = keys[n]}
    IN  IF hits = {} THEN 0
        ELSE CHOOSE n \in hits : \A m \in hits : n <= m

passThrough_drop(res, t, pos) == res

\* result += text[i]
passThrough(res, t, pos) == Append(res, t[pos + 1])

advance_stuck(pos, k) == pos

advance_one(pos, k) == pos + 1

\* i += key.length
advance(pos, k) == pos + Len(k)

\* one iteration of while (i < text.length) in function f, from cursor pos
\* with output res: the values of matched, key, chunk, result and i after it.
iteration(f, t, pos, res) ==
    LET keys == SortedKeysOf(f)
        n    == firstMatch(keys, t, pos)
    IN  IF n # 0
        THEN LET k  == keys[n]
                 ch == substring(t, pos, pos + Len(k))
             IN  [matched |-> TRUE, key |-> k, chunk |-> ch,
                  result |-> res \o MatchCaseOf(f, ch, MapGet(LookupOf(f), k)),
                  i |-> advance(pos, k)]
        ELSE [matched |-> FALSE, key |-> << >>, chunk |-> << >>,
              result |-> passThrough(res, t, pos),
              i |-> pos + 1]

\* the whole while loop of function f from cursor pos with output res
RECURSIVE whileLoop(_, _, _, _)
whileLoop(f, t, pos, res) ==
    IF pos < Len(t)
    THEN LET it == iteration(f, t, pos, res) IN whileLoop(f, t, it.i, it.result)
    ELSE res

latinToCyrillicConvert(t) == whileLoop("latinToCyrillicConvert", t, 0, << >>)

cyrillicToLatinConvert(t) == whileLoop("cyrillicToLatinConvert", t, 0, << >>)

uzbekLatinToCyrillic(t) == whileLoop("uzbekLatinToCyrillic", t, 0, << >>)

uzbekCyrillicToLatin(t) == whileLoop("uzbekCyrillicToLatin", t, 0, << >>)

(***************************************************************************)
(* Converter registry and the convert facade.                              *)
(***************************************************************************)
\* what Map.prototype.get returns for an absent key
Undefined == [undefined |-> TRUE]

\* no Error has been thrown
NoError == [name |-> "none", message |-> << >>]

BuiltIns_swapped ==
    << [id |-> "latin-to-cyrillic",  name |-> "Latin -> Cyrillic (Russian)",
        convert |-> "latinToCyrillicConvert"],
       [id |-> "cyrillic-to-latin",  name |-> "Cyrillic -> Latin (Russian)",
        convert |-> "cyrillicToLatinConvert"],
       [id |-> "uz-latn-to-uz-cyrl", name |-> "Uzbek Latin -> Cyrillic",
        convert |-> "uzbekCyrillicToLatin"],
       [id |-> "uz-cyrl-to-uz-latn", name |-> "Uzbek Cyrillic -> Latin",
        convert |-> "uzbekLatinToCyrillic"] >>

\* the four registerConverter({...}) statements run when the module loads
BuiltIns ==
    << [id |-> "latin-to-cyrillic",  name |-> "Latin -> Cyrillic (Russian)",
        convert |-> "latinToCyrillicConvert"],
       [id |-> "cyrillic-to-latin",  name |-> "Cyrillic -> Latin (Russian)",
        convert |-> "cyrillicToLatinConvert"],
       [id |-> "uz-latn-to-uz-cyrl", name |-> "Uzbek Latin -> Cyrillic",
        convert |-> "uzbekLatinToCyrillic"],
       [id |-> "uz-cyrl-to-uz-latn", name |-> "Uzbek Cyrillic -> Latin",
        convert |-> "uzbekCyrillicToLatin"] >>

registerConverter_keepFirst(m, converter) ==
    IF MapHas(m, converter.id) THEN m ELSE MapSet(m, converter.id, converter)

registerConverter_moveToEnd(m, converter) ==
    Append(SelectSeq(m, LAMBDA e : e.key # converter.id),
           [key |-> converter.id, value |-> converter])

\* converters.set(converter.id, converter)
registerConverter(m, converter) == MapSet(m, converter.id, converter)

\* converters.get(id)
getConverter(m, id) == IF MapHas(m, id) THEN MapGet(m, id) ELSE Undefined

\* Array.from(converters.values())
getAllConverters(m) == MapValues(m)

\* the registry once the module has loaded: the built-ins registered in order
RECURSIVE RegisterAll(_, _, _)
RegisterAll(m, cs, n) ==
    IF n > Len(cs) THEN m ELSE RegisterAll(registerConverter(m, cs[n]), cs, n + 1)

LoadedRegistry == RegisterAll(<< >>, BuiltIns, 1)

(***************************************************************************)
(* Script detection: analyzeScript and suggestConversion.                  *)
(*                                                                         *)
(* for (const char of text) iterates code points; every text of the model  *)
(* is made of characters of the Basic Multilingual Plane, so a char is one *)
(* code unit.  A percentage is kept as the exact ratio num / den: the      *)
(* code's double comparison (n / total) * 100 >= 90 decides as             *)
(* 100 n >= 90 total does for every total up to 20000 (9 / 10 rounds to a  *)
(* double whose product with 100 rounds to 90 exactly).                    *)
(***************************************************************************)
CYRILLIC_RANGE_basic(char) == char \in 1040..1103

\* /[\u0400-\u04FF]/.test(char)
CYRILLIC_RANGE(char) == char \in 1024..1279

\* /[A-Za-z]/.test(char)
LATIN_RANGE(char) == char \in 65..90 \/ char \in 97..122

\* (count / totalLetters) * 100
Percentage(count, totalLetters) == [num |-> count * 100, den |-> totalLetters]

\* the literal 0 of a percentage field
ZeroPercentage == [num |-> 0, den |-> 1]

\* percentage >= n
AtLeast(percentage, n) == percentage.num >= n * percentage.den

ScriptType_strict(latinPercentage, cyrillicPercentage, totalLetters) ==
    IF latinPercentage.num > 90 * latinPercentage.den THEN "latin"
    ELSE IF cyrillicPercentage.num > 90 * cyrillicPercentage.den THEN "cyrillic"
    ELSE IF totalLetters > 0 THEN "mixed"
    ELSE "unknown"

\* the if / else-if chain that sets type
ScriptType(latinPercentage, cyrillicPercentage, totalLetters) ==
    IF AtLeast(latinPercentage, 90) THEN "latin"
    ELSE IF AtLeast(cyrillicPercentage, 90) THEN "cyrillic"
    ELSE IF totalLetters > 0 THEN "mixed"
    ELSE "unknown"

\* analyzeScript after its counting loop: the ScriptAnalysis it returns
ScriptAnalysis(lc, cc) ==
    LET totalLetters == lc + cc
    IN  IF totalLetters = 0
        THEN [type |-> "unknown", latinCount |-> 0, cyrillicCount |-> 0,
              totalLetters |-> 0, latinPercentage |-> ZeroPercentage,
              cyrillicPercentage |-> ZeroPercentage]
        ELSE LET latinPercentage    == Percentage(lc, totalLetters)
                 cyrillicPercentage == Percentage(cc, totalLetters)
             IN  [type |-> ScriptType(latinPercentage, cyrillicPercentage, totalLetters),
                  latinCount |-> lc, cyrillicCount |-> cc,
                  totalLetters |-> totalLetters,
                  latinPercentage |-> latinPercentage,
                  cyrillicPercentage |-> cyrillicPercentage]

\* no analyzeScript call has returned yet
NoAnalysis ==
    [type |-> "none", latinCount |-> 0, cyrillicCount |-> 0, totalLetters |-> 0,
     latinPercentage |-> ZeroPercentage, cyrillicPercentage |-> ZeroPercentage]

(***************************************************************************)
(* Inputs.                                                                 *)
(***************************************************************************)
\* code units the exhaustive texts are made of:
\* 's' 'h' 'c' 'S' 'H' apostrophe '7'
\* U+043A (ka) U+0441 (es) U+043D (en) U+0433 (ghe)
Alphabet == {115, 104, 99, 83, 72, 39, 55, 1082, 1089, 1085, 1075}

Texts(n) == UNION {[1..k -> Alphabet] : k \in 0..n}

Examples ==
    {
     <<115, 104, 99, 104, 117, 107, 97>>,  \* shchuka
     <<80, 82, 73, 86, 69, 84>>,  \* PRIVET
     <<80, 114, 105, 118, 101, 116>>,  \* Privet
     <<112, 114, 105, 118, 101, 116>>,  \* privet
     <<115, 112, 97, 115, 105, 98, 111>>,  \* spasibo
     <<115, 97, 108, 111, 109>>,  \* salom
     <<114, 97, 104, 109, 97, 116>>,  \* rahmat
     <<83, 104, 99, 104>>,  \* Shch
     <<83, 72>>,  \* SH
     <<115, 72>>,  \* sH
     <<120>>,  \* x
     <<88, 97>>,  \* Xa
     <<79, 66, 39, 69, 75, 84>>,  \* OB'EKT
     <<79, 66, 34, 69, 75, 84>>,  \* OB"EKT
     <<71, 39, 111, 39, 110, 103>>,  \* G'o'ng
     <<78, 103>>,  \* Ng
     <<106, 32, 50>>,  \* j 2
     <<1082, 1089>>,  \* Cyrillic ks
     <<1065, 1091, 1082, 1072>>,  \* Cyrillic Shchuka, capitalised
     <<1065, 1059, 1050, 1040>>,  \* Cyrillic SHCHUKA
     <<1071, 1084, 1072>>,  \* Cyrillic Yama, capitalised
     <<1085, 1075>>,  \* Cyrillic ng
     <<1053, 1075>>,  \* Cyrillic Ng
     <<1055, 1056, 1048, 1042, 1045, 1058>>,  \* Cyrillic PRIVET
     <<1055, 1088, 1080, 1074, 1077, 1090>>,  \* Cyrillic Privet
     <<1038, 1171, 1080, 1083>>,  \* Uzbek Cyrillic O'g'il
     <<1086, 1073, 1098, 1105, 1084>>,  \* Cyrillic ob"yom
     <<1089, 1086, 1083, 1100>>,  \* Cyrillic sol'
     <<107, 115>>,  \* ks
     <<1087, 1088, 1080, 1074, 1077, 1090>>,  \* Cyrillic privet
     <<1082, 1072, 1082>>   \* Cyrillic kak
    }

\* every token of the mapping tables, on either side
TableTokens ==
    LET Entries == {LATIN_CYRILLIC_MAP[n] : n \in 1..Len(LATIN_CYRILLIC_MAP)}
                   \cup {UZBEK_LATIN_CYRILLIC_MAP[n] : n \in 1..Len(UZBEK_LATIN_CYRILLIC_MAP)}
                   \cup {UZBEK_CYRILLIC_TO_LATIN_EXTRAS[n] :
                            n \in 1..Len(UZBEK_CYRILLIC_TO_LATIN_EXTRAS)}
    IN  {e.latin : e \in Entries} \cup {e.cyrillic : e \in Entries}

\* the texts convert is called with once the module has loaded
Inputs == Texts(MaxLen) \cup Examples \cup TableTokens

TextsOver(alphabet, n) == UNION {[1..k -> alphabet] : k \in 0..n}

\* U+044C and U+042C, the soft sign
SoftSigns == {1100, 1068}

\* U+043D U+0433 (the two letters of the only two-letter Cyrillic key of the
\* Uzbek scheme), U+0413, and the soft sign in both cases
SoftSignTexts == TextsOver({1085, 1075, 1043} \cup SoftSigns, MaxLen)

\* lowercase ASCII letters (those of the digraphs ch, sh, g', o', ng), the
\* apostrophe, a digit and the space
LowercaseUnits == {99, 104, 115, 110, 103, 111, 39, 55, 32}

\* every pair of lowercase ASCII letters, apostrophe, digit '7' and space
LowercasePairs == TextsOver((97..122) \cup {39, 55, 32}, 2)

UzbekLatinTexts == TextsOver(LowercaseUnits, MaxLen) \cup LowercasePairs

RoundTripInputs == Inputs \cup SoftSignTexts \cup UzbekLatinTexts

\* the texts convert is called with while converters are being registered
RegTexts == {t \in Examples : Len(t) <= 2} \cup {<< >>}

\* a text of l Latin letters, c Cyrillic letters and o other characters, the
\* Latin letters first (latinFirst) or last
Mix(l, c, o, latinFirst) ==
    LET n == l + c + o
        unit(k) == IF k <= l THEN (IF k % 2 = 1 THEN 97 ELSE 90)            \* 'a' 'Z'
                   ELSE IF k <= l + c THEN (IF k % 2 = 1 THEN 1103 ELSE 1038)  \* U+044F U+040E
                   ELSE (IF k % 2 = 1 THEN 55 ELSE 32)                      \* '7' ' '
    IN  [k \in 1..n |-> IF latinFirst THEN unit(k) ELSE unit(n + 1 - k)]

Mixes(n) ==
    {Mix(l, c, o, b) : l \in 0..n, c \in 0..n, o \in 0..n, b \in BOOLEAN}

\* one-character texts at the edges of the two ranges:
\* '@' 'A' 'Z' '[' '`' 'a' 'z' '{' U+03FF U+0400 U+04FF U+0500
RangeEdges == {<<c>> : c \in {64, 65, 90, 91, 96, 97, 122, 123, 1023, 1024, 1279, 1280}}

\* the texts analyzeScript and suggestConversion are called with
ClassifierInputs ==
    Texts(MaxLen) \cup Examples \cup RangeEdges
    \cup {t \in Mixes(MaxLetters) : Len(t) <= MaxLetters}
    \cup {Mix(89, 11, 0, TRUE), Mix(90, 10, 0, FALSE), Mix(11, 89, 0, TRUE), Mix(10, 90, 3, FALSE)}

\* ids convert is called with: the built-in ones and two that are not built in
AllIds ==
    {"latin-to-cyrillic", "cyrillic-to-latin", "uz-latn-to-uz-cyrl",
     "uz-cyrl-to-uz-latn", "custom", "not-a-real-id"}

\* converters a caller registers after the built-in ones
UserConverters ==
    [id : {"latin-to-cyrillic", "uz-cyrl-to-uz-latn", "custom"},
     name : {"user"},
     convert : {"cyrillicToLatinConvert", "uzbekLatinToCyrillic"}]

(***************************************************************************)
(* Translation service: translate and its three providers.  A text is a    *)
(* sequence of code units; an error message is a string.                   *)
(***************************************************************************)
Languages == {"en", "ru", "uz-latn", "uz-cyrl"}

API_LANG_CODES ==
    [l \in Languages |-> CASE l = "en" -> "en"
                           [] l = "ru" -> "ru"
                           [] l = "uz-latn" -> "uz"
                           [] l = "uz-cyrl" -> "uz"]

\* WhiteSpace and LineTerminator code units, which String.prototype.trim strips
IsWhiteSpace(c) ==
    \/ c \in {9, 10, 11, 12, 13, 32, 160, 5760, 8232, 8233, 8239, 8287, 12288, 65279}
    \/ c \in 8192..8202

trim(s) ==
    LET keep == {n \in 1..Len(s) : ~IsWhiteSpace(s[n])}
    IN  IF keep = {} THEN << >>
        ELSE SubSeq(s, CHOOSE n \in keep : \A m \in keep : n <= m,
                       CHOOSE n \in keep : \A m \in keep : m <= n)

\* String.prototype.includes
includes(s, sub) ==
    \E k \in 0..(Len(s) - Len(sub)) : SubSeq(s, k + 1, k + Len(sub)) = sub

\* Array.prototype.join('') of an array of strings
RECURSIVE join(_)
join(parts) == IF parts = << >> THEN << >> ELSE Head(parts) \o join(Tail(parts))

\* "MYMEMORY WARNING"
MYMEMORY_WARNING == <<77, 89, 77, 69, 77, 79, 82, 89, 32, 87, 65, 82, 78, 73, 78, 71>>

\* a TranslationResult: { success: true, translatedText, source }
Success(translatedText, source) ==
    [success |-> TRUE, translatedText |-> translatedText, source |-> source]

\* a TranslationResult: { success: false, error }
Failure(error) == [success |-> FALSE, error |-> error]

\* how a function body ends: with a return value, or with a thrown Error
Returns(value) == [thrown |-> FALSE, value |-> value]

Throws(message) == [thrown |-> TRUE, message |-> message]

\* catch (error) { return { success: false, error: error.message } }
catch(outcome) ==
    IF outcome.thrown THEN Returns(Failure(outcome.message)) ELSE outcome

\* no parsed body: the request failed before response.json()
NoData == [none |-> TRUE]

\* what a fetch and the response.json() after it can do: the fetch rejects,
\* the status is not OK, the body is not JSON, or the body parses to data
ResponsesWith(datas) ==
    {[kind |-> k, data |-> NoData] : k \in {"network_error", "http_error", "invalid_json"}}
    \cup {[kind |-> "json", data |-> d] : d \in datas}

\* translations a provider sends back: U+0434 U+0430, and "da "
Translations == {<<1076, 1072>>, <<100, 97, 32>>}

\* Google's data: not the expected array, or data[0] as the list of part[0]
\* strings (the empty string stands for every part the filter drops)
GoogleData ==
    {[isArray |-> FALSE, parts |-> << >>]}
    \cup {[isArray |-> TRUE, parts |-> p] :
             p \in {<< >>, << << >> >>} \cup {<<t>> : t \in Translations}
                   \cup {<<t, << >>, t>> : t \in Translations}}

GoogleResponses == ResponsesWith(GoogleData)

\* MyMemory's data: responseStatus, and responseData with its translatedText
\* (present = FALSE: responseData or translatedText is missing)
MyMemoryData ==
    [responseStatus : {200, 403},
     responseData : {[present |-> FALSE, translatedText |-> << >>]}
                    \cup {[present |-> TRUE, translatedText |-> t] :
                             t \in Translations \cup {<< >>, MYMEMORY_WARNING \o <<58, 32, 120>>}}]

MyMemoryResponses == ResponsesWith(MyMemoryData)

\* a LibreTranslate instance's data: null, or an object with its translatedText
\* (empty: missing or empty)
LibreTranslateData ==
    {[null |-> TRUE, translatedText |-> << >>]}
    \cup {[null |-> FALSE, translatedText |-> t] : t \in Translations \cup {<< >>}}

LibreTranslateResponses == ResponsesWith(LibreTranslateData)

\* the try block of translateWithGoogleFree
translateWithGoogleFree_try(response) ==
    CASE response.kind = "network_error" -> Throws("Failed to fetch")
      [] response.kind = "http_error"    -> Throws("HTTP 500")
      [] response.kind = "invalid_json"  -> Throws("Unexpected token < in JSON")
      [] response.kind = "json" ->
            LET data == response.data
                translatedParts == join(SelectSeq(data.parts, LAMBDA part : part # << >>))
            IN  IF data.isArray /\ translatedParts # << >>
                THEN Returns(Success(translatedParts, "Google"))
                ELSE Throws("Unexpected response format")

translateWithGoogleFree_noCatch(response) == translateWithGoogleFree_try(response)

translateWithGoogleFree(response) == catch(translateWithGoogleFree_try(response))

\* the try block of translateWithMyMemory
translateWithMyMemory_try(response) ==
    CASE response.kind = "network_error" -> Throws("Failed to fetch")
      [] response.kind = "http_error"    -> Throws("HTTP 500: Internal Server Error")
      [] response.kind = "invalid_json"  -> Throws("Unexpected token < in JSON")
      [] response.kind = "json" ->
            LET data == response.data
            IN  IF data.responseStatus # 200
                THEN Throws("API error: status 403")
                ELSE IF ~data.responseData.present
                THEN Throws("Cannot read properties of undefined (reading 'includes')")
                ELSE IF includes(data.responseData.translatedText, MYMEMORY_WARNING)
                THEN Throws("Daily translation limit exceeded")
                ELSE Returns(Success(data.responseData.translatedText, "MyMemory"))

translateWithMyMemory(response) == catch(translateWithMyMemory_try(response))

\* translateWithLibreTranslate: its list of instances
instances ==
    <<"https://libretranslate.com", "https://translate.argosopentech.com",
      "https://translate.terraprint.co">>

\* one iteration of its loop returns (found) or goes on to the next instance
\* (continue, a falsy translatedText, or the empty catch)
LibreTranslateFound(response) ==
    /\ response.kind = "json"
    /\ ~response.data.null
    /\ response.data.translatedText # << >>

IsBlank_noTrim(t) == t = << >>

\* translate's guards: !text || text.trim().length === 0
IsBlank(t) == t = << >> \/ Len(trim(t)) = 0

IsUzbekScriptPair(sourceLang, targetLang) ==
    \/ (sourceLang = "uz-latn" /\ targetLang = "uz-cyrl")
    \/ (sourceLang = "uz-cyrl" /\ targetLang = "uz-latn")

\* translate has not been called
NoArguments == [text |-> << >>, sourceLang |-> "none", targetLang |-> "none"]

NoResult == [pending |-> TRUE]

\* the texts translate is called with: '', ' ', tab newline, 'hi', ' hi',
\* U+0434 U+0430
TranslateTexts ==
    {<< >>, <<32>>, <<9, 10>>, <<104, 105>>, <<32, 104, 105>>, <<1076, 1072>>}

(***************************************************************************)
(* Settings, popup and service worker.                                     *)
(***************************************************************************)
DEFAULT_SETTINGS ==
    [enabled |-> TRUE, showNotifications |-> TRUE, mappingVariant |-> "standard",
     preferredSourceLang |-> "en", preferredTargetLang |-> "ru"]

\* the settings the popup can have stored: it changes the two checkbox fields
StoredSettings ==
    [enabled : BOOLEAN, showNotifications : BOOLEAN, mappingVariant : {"standard"},
     preferredSourceLang : {"en"}, preferredTargetLang : {"ru"}]

\* result.settings || DEFAULT_SETTINGS
SettingsOrDefault(stored) == IF stored = Undefined THEN DEFAULT_SETTINGS ELSE stored

\* { ...current, ...settings } for a partial of one field
Merge(current, field, value) == [current EXCEPT ![field] = value]

CONVERSION_MENU_ITEMS_typo ==
    << [id |-> "latin-to-cyrillic",  title |-> "Latin -> Cyrillic (Russian)"],
       [id |-> "cyrillic-to-latin",  title |-> "Cyrillic -> Latin (Russian)"],
       [id |-> "uz-latn-to-uz-cyrl", title |-> "Uzbek Latin -> Cyrillic"],
       [id |-> "uz-cyrl-to-uz-lat",  title |-> "Uzbek Cyrillic -> Latin"] >>

CONVERSION_MENU_ITEMS ==
    << [id |-> "latin-to-cyrillic",  title |-> "Latin -> Cyrillic (Russian)"],
       [id |-> "cyrillic-to-latin",  title |-> "Cyrillic -> Latin (Russian)"],
       [id |-> "uz-latn-to-uz-cyrl", title |-> "Uzbek Latin -> Cyrillic"],
       [id |-> "uz-cyrl-to-uz-latn", title |-> "Uzbek Cyrillic -> Latin"] >>

CONVERSION_TYPES ==
    {"latin-to-cyrillic", "cyrillic-to-latin", "uz-latn-to-uz-cyrl", "uz-cyrl-to-uz-latn"}

\* `translate-${source.code}-to-${target.code}`
TranslateMenuId(source, target) == "translate-" \o source \o "-to-" \o target

\* the language pairs the translation submenus are created for
TranslationPairs ==
    {p \in Languages \X Languages : p[1] # p[2] /\ ~IsUzbekScriptPair(p[1], p[2])}

\* the ids of the menu items a click can land on (parents and the separator
\* are not clickable)
ClickableMenuIds ==
    {CONVERSION_MENU_ITEMS[n].id : n \in 1..Len(CONVERSION_MENU_ITEMS)}
    \cup {TranslateMenuId(p[1], p[2]) : p \in TranslationPairs}
    \cup {"quick-translate"}

\* menuId.startsWith("translate-") && menuId.includes("-to-"), then
\* menuId.match(/^translate-(.+)-to-(.+)$/): the pairs the id is made of
TranslationMatch(menuId) ==
    {p \in Languages \X Languages : menuId = TranslateMenuId(p[1], p[2])}

\* /[\u0400-\u04FF]/.test(selectionText)
hasCyrillic(selectionText) ==
    \E n \in 1..Len(selectionText) : CYRILLIC_RANGE(selectionText[n])

\* tab is undefined or has no id
NoTab == 0

\* the selections a click comes with: none, "sh", U+0434 U+0430
SelectionTexts == {<< >>, <<115, 104>>, <<1076, 1072>>}

\* what window.getSelection() gives the content script: no range, or a range
\* with its text (' ', "sh", '7')
PageSelections ==
    {[rangeCount |-> 0, text |-> << >>]}
    \cup {[rangeCount |-> 1, text |-> t] : t \in {<<32>>, <<115, 104>>, <<55>>}}

ConvertSelectionMessage(conversionType, selectedText) ==
    [action |-> "CONVERT_SELECTION", conversionType |-> conversionType,
     selectedText |-> selectedText]

TranslateSelectionMessage(sourceLang, targetLang, selectedText) ==
    [action |-> "TRANSLATE_SELECTION", sourceLang |-> sourceLang,
     targetLang |-> targetLang, selectedText |-> selectedText]

\* a ConversionResult
Converted(converted) == [success |-> TRUE, converted |-> converted]

NotConverted(error) == [success |-> FALSE, error |-> error]

\* replaceSelection(newText): the page accepts the replacement or not
replaceSelection(newText, accepted) ==
    IF accepted THEN Converted(newText)
    ELSE NotConverted("Cannot modify this element (page may be protected)")

NotRead == [notRead |-> TRUE]

NoClick == [tabId |-> NoTab, menuItemId |-> "none", selectionText |-> << >>]

NoLanguages == [sourceLang |-> "none", targetLang |-> "none"]

NoResponse == [none |-> TRUE]

(***************************************************************************)
(* State.                                                                  *)
(***************************************************************************)
VARIABLES
    converters,  \* the registry Map: entries [key |-> id, value |-> Converter]
    calls,       \* the converters passed to registerConverter so far, in call order
    pc,          \* "load" | "idle" | "scan" | "returned" | "threw"
                 \* | "count" | "analyzed" | "suggested"
    type,        \* convert's type argument
    fn,          \* the converter function convert called, "none" if none
    text,        \* the text being converted
    i,           \* the cursor of the while loop
    result,      \* the output built so far; the returned string at "returned"
    matched,     \* the loop's matched flag after the last iteration
    key,         \* the key the last iteration broke at (empty if none)
    chunk,       \* the chunk that matched key (empty if none)
    error,       \* the Error thrown, NoError if none
    latinCount,     \* analyzeScript's latinCount
    cyrillicCount,  \* analyzeScript's cyrillicCount
    analysis,    \* the ScriptAnalysis analyzeScript returned, NoAnalysis if none
    suggestion   \* what suggestConversion returned ("null" for null), "none" if no call

VARIABLES
    tpc,         \* translate: "idle" | "google" | "mymemory" | "libre"
                 \* | "resolved" | "rejected"
    targs,       \* translate's arguments
    tresult,     \* translate's result variable; what the promise resolved to
    fetches,     \* the requests made by the call so far, in order
    instance,    \* the LibreTranslate instance being tried (1-based), 0 if none
    installed,   \* the onInstalled listener has initialised the settings
    storage,     \* chrome.storage.sync's "settings" item, Undefined if not set
    ppc,         \* the popup: "closed" | "init" | "ready"
    enabledCheckbox,        \* enabledCheckbox.checked
    notificationsCheckbox,  \* notificationsCheckbox.checked
    saves,       \* the saveSettings calls so far
    swQueue,     \* messages sent to the service worker, not yet handled
    hpc,         \* the onClicked listener: "idle" | "storage_get" | "translate"
                 \* | "send" | "convert" | "responded" | "inject" | "done"
    click,       \* the click's tab id, menu item id and selection text
    settings,    \* the listener's settings, NotRead before storage.sync.get
    languages,   \* handleTranslation's sourceLang and targetLang
    sent,        \* the messages sent to the tab's content script, in order
    injections,  \* the number of chrome.scripting.executeScript calls
    attempt,     \* 1: first tabs.sendMessage, 2: the one after the injection
    selectedText,  \* the text the content script read from the page's selection
    response     \* the content script's ConversionResult

translateVars == <<tpc, targs, tresult, fetches, instance>>

popupVars == <<ppc, enabledCheckbox, notificationsCheckbox, saves, swQueue>>

menuVars ==
    <<hpc, click, settings, languages, sent, injections, attempt, selectedText, response>>

extensionVars == <<translateVars, installed, storage, popupVars, menuVars>>

coreVars ==
    <<converters, calls, pc, type, fn, text, i, result, matched, key, chunk, error,
      latinCount, cyrillicCount, analysis, suggestion>>

vars == <<coreVars, extensionVars>>

scanVars == <<fn, text, i, result, matched, key, chunk>>

classifierVars == <<latinCount, cyrillicCount, analysis, suggestion>>

NoCall ==
    /\ type = "none" /\ fn = "none" /\ text = << >> /\ i = 0 /\ result = << >>
    /\ matched = FALSE /\ key = << >> /\ chunk = << >> /\ error = NoError
    /\ latinCount = 0 /\ cyrillicCount = 0
    /\ analysis = NoAnalysis /\ suggestion = "none"
    /\ tpc = "idle" /\ targs = NoArguments /\ tresult = NoResult
    /\ fetches = << >> /\ instance = 0
    /\ installed = FALSE
    /\ ppc = "closed" /\ enabledCheckbox = FALSE /\ notificationsCheckbox = FALSE
    /\ saves = << >> /\ swQueue = << >>
    /\ hpc = "idle" /\ click = NoClick /\ settings = NotRead /\ languages = NoLanguages
    /\ sent = << >> /\ injections = 0 /\ attempt = 1
    /\ selectedText = << >> /\ response = NoResponse

\* the module starts loading: nothing is registered yet
Init ==
    /\ converters = << >>
    /\ calls = << >>
    /\ pc = "load"
    /\ NoCall
    /\ storage = Undefined

\* the module has loaded: the four built-in converters are registered
InitLoaded ==
    /\ converters = LoadedRegistry
    /\ calls = BuiltIns
    /\ pc = "idle"
    /\ NoCall
    /\ storage = Undefined

\* the extension starts: its scripts are loaded, the storage holds what an
\* earlier session left in it, if anything
InitExtension ==
    /\ converters = LoadedRegistry
    /\ calls = BuiltIns
    /\ pc = "idle"
    /\ NoCall
    /\ storage \in {Undefined} \cup StoredSettings

(***************************************************************************)
(* Actions.                                                                *)
(***************************************************************************)
\* the next registerConverter({...}) statement of the module body
LoadBuiltIn ==
    /\ pc = "load"
    /\ LET c == BuiltIns[Len(calls) + 1]
       IN  /\ converters' = registerConverter(converters, c)
           /\ calls' = Append(calls, c)
    /\ pc' = IF Len(calls) + 1 = Len(BuiltIns) THEN "idle" ELSE "load"
    /\ UNCHANGED <<type, error>>
    /\ UNCHANGED scanVars
    /\ UNCHANGED classifierVars
    /\ UNCHANGED extensionVars

\* registerConverter(c) called by a user of the module
RegisterConverter(c) ==
    /\ pc = "idle"
    /\ Len(calls) < Len(BuiltIns) + MaxRegs
    /\ converters' = registerConverter(converters, c)
    /\ calls' = Append(calls, c)
    /\ UNCHANGED <<pc, type, error>>
    /\ UNCHANGED scanVars
    /\ UNCHANGED classifierVars
    /\ UNCHANGED extensionVars

Convert_fallback(t, ty) ==
    /\ pc = "idle"
    /\ LET converter == IF MapHas(converters, ty) THEN MapGet(converters, ty)
                        ELSE converters[1].value
       IN  /\ pc' = "scan"
           /\ fn' = converter.convert
           /\ error' = error
    /\ type' = ty
    /\ text' = t
    /\ i' = 0
    /\ result' = << >>
    /\ UNCHANGED <<converters, calls, matched, key, chunk>>
    /\ UNCHANGED classifierVars
    /\ UNCHANGED extensionVars

Convert_rejectEmpty(t, ty) ==
    /\ pc = "idle"
    /\ LET converter == getConverter(converters, ty)
       IN  IF converter = Undefined \/ t = << >>
           THEN /\ pc' = "threw"
                /\ error' = [name |-> "Error", message |-> <<"Unknown converter: ", ty>>]
                /\ fn' = fn
           ELSE /\ pc' = "scan"
                /\ fn' = converter.convert
                /\ error' = error
    /\ type' = ty
    /\ text' = t
    /\ i' = 0
    /\ result' = << >>
    /\ UNCHANGED <<converters, calls, matched, key, chunk>>
    /\ UNCHANGED classifierVars
    /\ UNCHANGED extensionVars

\* convert(t, ty) up to the call of converter.convert, or to the throw
Convert(t, ty) ==
    /\ pc = "idle"
    /\ LET converter == getConverter(converters, ty)
       IN  IF converter = Undefined
           THEN /\ pc' = "threw"
                /\ error' = [name |-> "Error", message |-> <<"Unknown converter: ", ty>>]
                /\ fn' = fn
           ELSE /\ pc' = "scan"
                /\ fn' = converter.convert
                /\ error' = error
    /\ type' = ty
    /\ text' = t
    /\ i' = 0
    /\ result' = << >>
    /\ UNCHANGED <<converters, calls, matched, key, chunk>>
    /\ UNCHANGED classifierVars
    /\ UNCHANGED extensionVars

\* one iteration of the while loop of the running converter function
ScanStep ==
    /\ pc = "scan"
    /\ i < Len(text)
    /\ LET it == iteration(fn, text, i, result)
       IN  /\ matched' = it.matched
           /\ key' = it.key
           /\ chunk' = it.chunk
           /\ result' = it.result
           /\ i' = it.i
    /\ UNCHANGED <<converters, calls, pc, type, fn, text, error>>
    /\ UNCHANGED classifierVars
    /\ UNCHANGED extensionVars

\* the loop condition fails: return result
Return ==
    /\ pc = "scan"
    /\ ~(i < Len(text))
    /\ pc' = "returned"
    /\ UNCHANGED <<converters, calls, type, error>>
    /\ UNCHANGED scanVars
    /\ UNCHANGED classifierVars
    /\ UNCHANGED extensionVars

\* analyzeScript(t) up to its counting loop
AnalyzeScript(t) ==
    /\ pc = "idle"
    /\ pc' = "count"
    /\ text' = t
    /\ i' = 0
    /\ latinCount' = 0
    /\ cyrillicCount' = 0
    /\ UNCHANGED <<converters, calls, type, fn, result, matched, key, chunk, error,
                   analysis, suggestion>>
    /\ UNCHANGED extensionVars

\* one iteration of  for (const char of text)
CountStep ==
    /\ pc = "count"
    /\ i < Len(text)
    /\ LET char == text[i + 1]
       IN  IF LATIN_RANGE(char)
           THEN latinCount' = latinCount + 1 /\ cyrillicCount' = cyrillicCount
           ELSE IF CYRILLIC_RANGE(char)
                THEN cyrillicCount' = cyrillicCount + 1 /\ latinCount' = latinCount
                ELSE UNCHANGED <<latinCount, cyrillicCount>>
    /\ i' = i + 1
    /\ UNCHANGED <<converters, calls, pc, type, fn, text, result, matched, key, chunk,
                   error, analysis, suggestion>>
    /\ UNCHANGED extensionVars

\* the loop is over: analyzeScript returns its ScriptAnalysis
AnalyzeReturn ==
    /\ pc = "count"
    /\ ~(i < Len(text))
    /\ analysis' = ScriptAnalysis(latinCount, cyrillicCount)
    /\ pc' = "analyzed"
    /\ UNCHANGED <<converters, calls, type, fn, text, i, result, matched, key, chunk,
                   error, latinCount, cyrillicCount, suggestion>>
    /\ UNCHANGED extensionVars

suggestConversion_majority ==
    /\ pc = "analyzed"
    /\ suggestion' = IF analysis.latinCount > analysis.cyrillicCount THEN "latin-to-cyrillic"
                     ELSE IF analysis.cyrillicCount > analysis.latinCount
                          THEN "cyrillic-to-latin"
                          ELSE "null"
    /\ pc' = "suggested"
    /\ UNCHANGED <<converters, calls, type, fn, text, i, result, matched, key, chunk,
                   error, latinCount, cyrillicCount, analysis>>
    /\ UNCHANGED extensionVars

\* suggestConversion(text) once its analyzeScript(text) call has returned
suggestConversion ==
    /\ pc = "analyzed"
    /\ suggestion' = IF analysis.type = "latin" THEN "latin-to-cyrillic"
                     ELSE IF analysis.type = "cyrillic" THEN "cyrillic-to-latin"
                     ELSE "null"
    /\ pc' = "suggested"
    /\ UNCHANGED <<converters, calls, type, fn, text, i, result, matched, key, chunk,
                   error, latinCount, cyrillicCount, analysis>>
    /\ UNCHANGED extensionVars

(***************************************************************************)
(* Actions of the translation service.                                     *)
(***************************************************************************)
\* the fetch of one request, and whether the provider made a success of it
Request(url, success) ==
    [url |-> url, source |-> API_LANG_CODES[targs.sourceLang],
     target |-> API_LANG_CODES[targs.targetLang], success |-> success]

\* translate(t, sourceLang, targetLang) up to its first await
translate(t, sourceLang, targetLang) ==
    /\ tpc = "idle"
    /\ targs' = [text |-> t, sourceLang |-> sourceLang, targetLang |-> targetLang]
    /\ IF IsBlank(t)
       THEN tpc' = "resolved" /\ tresult' = Failure("Empty text")
       ELSE IF sourceLang = targetLang
       THEN tpc' = "resolved" /\ tresult' = [success |-> TRUE, translatedText |-> t]
       ELSE IF IsUzbekScriptPair(sourceLang, targetLang)
       THEN /\ tpc' = "resolved"
            /\ tresult' = Failure("Use transliteration for Uzbek script conversion")
       ELSE tpc' = "google" /\ tresult' = tresult
    /\ UNCHANGED <<fetches, instance>>
    /\ UNCHANGED <<coreVars, installed, storage, popupVars, menuVars>>

\* result = await translateWithGoogleFree(...); if (result.success) return result
AwaitGoogle(fetched) ==
    /\ tpc = "google"
    /\ LET outcome == translateWithGoogleFree(fetched)
       IN  IF outcome.thrown
           THEN /\ tpc' = "rejected"
                /\ tresult' = tresult
                /\ fetches' = Append(fetches,
                                  Request("https://translate.googleapis.com", FALSE))
           ELSE /\ tresult' = outcome.value
                /\ tpc' = IF outcome.value.success THEN "resolved" ELSE "mymemory"
                /\ fetches' = Append(fetches, Request("https://translate.googleapis.com",
                                                      outcome.value.success))
    /\ UNCHANGED <<targs, instance>>
    /\ UNCHANGED <<coreVars, installed, storage, popupVars, menuVars>>

AwaitMyMemory_noFallback(fetched) ==
    /\ tpc = "mymemory"
    /\ LET outcome == translateWithMyMemory(fetched)
       IN  /\ tresult' = outcome.value
           /\ tpc' = "resolved"
           /\ fetches' = Append(fetches, Request("https://api.mymemory.translated.net",
                                                 outcome.value.success))
    /\ instance' = instance
    /\ UNCHANGED targs
    /\ UNCHANGED <<coreVars, installed, storage, popupVars, menuVars>>

\* result = await translateWithMyMemory(...); if (result.success) return result;
\* otherwise translateWithLibreTranslate starts on its first instance
AwaitMyMemory(fetched) ==
    /\ tpc = "mymemory"
    /\ LET outcome == translateWithMyMemory(fetched)
       IN  IF outcome.thrown
           THEN /\ tpc' = "rejected"
                /\ tresult' = tresult
                /\ instance' = instance
                /\ fetches' = Append(fetches,
                                  Request("https://api.mymemory.translated.net", FALSE))
           ELSE /\ tresult' = outcome.value
                /\ tpc' = IF outcome.value.success THEN "resolved" ELSE "libre"
                /\ instance' = IF outcome.value.success THEN instance ELSE 1
                /\ fetches' = Append(fetches, Request("https://api.mymemory.translated.net",
                                                      outcome.value.success))
    /\ UNCHANGED targs
    /\ UNCHANGED <<coreVars, installed, storage, popupVars, menuVars>>

\* one iteration of translateWithLibreTranslate's loop; after the last one the
\* provider returns its failure and translate returns "All translation
\* services failed"
AwaitLibreTranslate(fetched) ==
    /\ tpc = "libre"
    /\ fetches' = Append(fetches, Request(instances[instance],
                                          LibreTranslateFound(fetched)))
    /\ IF LibreTranslateFound(fetched)
       THEN /\ tpc' = "resolved"
            /\ tresult' = Success(fetched.data.translatedText, "LibreTranslate")
            /\ instance' = instance
       ELSE IF instance < Len(instances)
       THEN /\ instance' = instance + 1
            /\ UNCHANGED <<tpc, tresult>>
       ELSE /\ tpc' = "resolved"
            /\ tresult' = Failure("All translation services failed. Please try again later.")
            /\ instance' = instance
    /\ UNCHANGED targs
    /\ UNCHANGED <<coreVars, installed, storage, popupVars, menuVars>>

(***************************************************************************)
(* Actions of the service worker's settings handling and of the popup.     *)
(***************************************************************************)
\* onInstalled: chrome.storage.sync.get("settings", ...) sets the defaults if
\* nothing is stored
OnInstalled ==
    /\ ~installed
    /\ installed' = TRUE
    /\ storage' = IF storage = Undefined THEN DEFAULT_SETTINGS ELSE storage
    /\ UNCHANGED <<coreVars, translateVars, popupVars, menuVars>>

\* DOMContentLoaded: init calls initSettings, which calls loadSettings
OpenPopup ==
    /\ ppc = "closed"
    /\ ppc' = "init"
    /\ swQueue' = Append(swQueue, [action |-> "GET_SETTINGS", settings |-> Undefined,
                                   call |-> 0])
    /\ UNCHANGED <<enabledCheckbox, notificationsCheckbox, saves>>
    /\ UNCHANGED <<coreVars, translateVars, installed, storage, menuVars>>

\* a change event of the enabled checkbox: saveSettings({ enabled }) up to the
\* message loadSettings sends
ChangeEnabled ==
    /\ ppc = "ready"
    /\ Len(saves) < MaxSaves
    /\ enabledCheckbox' = ~enabledCheckbox
    /\ saves' = Append(saves, [field |-> "enabled", value |-> ~enabledCheckbox,
                               stage |-> "loading", current |-> Undefined])
    /\ swQueue' = Append(swQueue, [action |-> "GET_SETTINGS", settings |-> Undefined,
                                   call |-> Len(saves) + 1])
    /\ UNCHANGED <<ppc, notificationsCheckbox>>
    /\ UNCHANGED <<coreVars, translateVars, installed, storage, menuVars>>

\* a change event of the notifications checkbox
ChangeNotifications ==
    /\ ppc = "ready"
    /\ Len(saves) < MaxSaves
    /\ notificationsCheckbox' = ~notificationsCheckbox
    /\ saves' = Append(saves, [field |-> "showNotifications",
                               value |-> ~notificationsCheckbox,
                               stage |-> "loading", current |-> Undefined])
    /\ swQueue' = Append(swQueue, [action |-> "GET_SETTINGS", settings |-> Undefined,
                                   call |-> Len(saves) + 1])
    /\ UNCHANGED <<ppc, enabledCheckbox>>
    /\ UNCHANGED <<coreVars, translateVars, installed, storage, menuVars>>

\* the service worker's onMessage listener takes the oldest message.
\* GET_SETTINGS: the response reaches loadSettings' callback (for initSettings
\* the checkboxes are set and the listeners added with it);
\* UPDATE_SETTINGS: the settings are stored and saveSettings resolves
OnMessage ==
    /\ swQueue # << >>
    /\ LET message == Head(swQueue)
       IN  IF message.action = "GET_SETTINGS"
           THEN /\ storage' = storage
                /\ IF message.call = 0
                   THEN /\ ppc' = "ready"
                        /\ enabledCheckbox' = SettingsOrDefault(storage).enabled
                        /\ notificationsCheckbox' =
                               SettingsOrDefault(storage).showNotifications
                        /\ saves' = saves
                   ELSE /\ saves' = [saves EXCEPT
                                       ![message.call].stage = "loaded",
                                       ![message.call].current = SettingsOrDefault(storage)]
                        /\ UNCHANGED <<ppc, enabledCheckbox, notificationsCheckbox>>
           ELSE /\ storage' = message.settings
                /\ saves' = [saves EXCEPT ![message.call].stage = "done"]
                /\ UNCHANGED <<ppc, enabledCheckbox, notificationsCheckbox>>
    /\ swQueue' = Tail(swQueue)
    /\ UNCHANGED <<coreVars, translateVars, installed, menuVars>>

\* saveSettings after  await loadSettings():  updated = { ...current,
\* ...settings }, sent as UPDATE_SETTINGS; the responses reach the popup in
\* the order the service worker sent them, so the calls resume in call order
SaveSettingsResume(k) ==
    /\ saves[k].stage = "loaded"
    /\ \A j \in 1..(k - 1) : saves[j].stage \in {"updating", "done"}
    /\ saves' = [saves EXCEPT ![k].stage = "updating"]
    /\ swQueue' = Append(swQueue,
                     [action |-> "UPDATE_SETTINGS",
                      settings |-> Merge(saves[k].current, saves[k].field, saves[k].value),
                      call |-> k])
    /\ UNCHANGED <<ppc, enabledCheckbox, notificationsCheckbox>>
    /\ UNCHANGED <<coreVars, translateVars, installed, storage, menuVars>>

\* the onMessage listener's UPDATE_SETTINGS branch, for a message of a popup
UpdateSettings(s) ==
    /\ storage # s
    /\ storage' = s
    /\ UNCHANGED <<coreVars, translateVars, installed, popupVars, menuVars>>

(***************************************************************************)
(* Actions of a context menu click: the service worker's onClicked         *)
(* listener and the content script's onMessage listener.                   *)
(***************************************************************************)
\* onClicked up to  await chrome.storage.sync.get("settings")
OnClicked(tabId, menuItemId, selectionText) ==
    /\ hpc = "idle"
    /\ click' = [tabId |-> tabId, menuItemId |-> menuItemId,
                 selectionText |-> selectionText]
    /\ hpc' = IF tabId = NoTab \/ selectionText = << >> THEN "done" ELSE "storage_get"
    /\ UNCHANGED <<settings, languages, sent, injections, attempt, selectedText, response>>
    /\ UNCHANGED <<coreVars, translateVars, installed, storage, popupVars>>

OnClickedResume_ignoreEnabled ==
    /\ hpc = "storage_get"
    /\ settings' = storage
    /\ LET menuId == click.menuItemId
       IN  IF menuId \in CONVERSION_TYPES
           THEN /\ sent' = Append(sent, ConvertSelectionMessage(menuId, click.selectionText))
                /\ hpc' = "send"
                /\ languages' = languages
           ELSE IF TranslationMatch(menuId) # {}
           THEN /\ languages' = LET p == CHOOSE p \in TranslationMatch(menuId) : TRUE
                                IN  [sourceLang |-> p[1], targetLang |-> p[2]]
                /\ hpc' = "translate"
                /\ sent' = sent
           ELSE IF menuId = "quick-translate"
           THEN /\ languages' = IF hasCyrillic(click.selectionText)
                                THEN [sourceLang |-> "ru", targetLang |-> "en"]
                                ELSE [sourceLang |-> "en", targetLang |-> "ru"]
                /\ hpc' = "translate"
                /\ sent' = sent
           ELSE /\ hpc' = "done"
                /\ UNCHANGED <<languages, sent>>
    /\ UNCHANGED <<click, injections, attempt, selectedText, response>>
    /\ UNCHANGED <<coreVars, translateVars, installed, storage, popupVars>>

\* onClicked after the settings are read: return if disabled, else dispatch on
\* the menu id; handleConversion sends its message, handleTranslation is about
\* to call translate
OnClickedResume ==
    /\ hpc = "storage_get"
    /\ settings' = storage
    /\ LET menuId == click.menuItemId
       IN  IF storage # Undefined /\ ~storage.enabled
           THEN /\ hpc' = "done"
                /\ UNCHANGED <<languages, sent>>
           ELSE IF menuId \in CONVERSION_TYPES
           THEN /\ sent' = Append(sent, ConvertSelectionMessage(menuId, click.selectionText))
                /\ hpc' = "send"
                /\ languages' = languages
           ELSE IF TranslationMatch(menuId) # {}
           THEN /\ languages' = LET p == CHOOSE p \in TranslationMatch(menuId) : TRUE
                                IN  [sourceLang |-> p[1], targetLang |-> p[2]]
                /\ hpc' = "translate"
                /\ sent' = sent
           ELSE IF menuId = "quick-translate"
           THEN /\ languages' = IF hasCyrillic(click.selectionText)
                                THEN [sourceLang |-> "ru", targetLang |-> "en"]
                                ELSE [sourceLang |-> "en", targetLang |-> "ru"]
                /\ hpc' = "translate"
                /\ sent' = sent
           ELSE /\ hpc' = "done"
                /\ UNCHANGED <<languages, sent>>
    /\ UNCHANGED <<click, injections, attempt, selectedText, response>>
    /\ UNCHANGED <<coreVars, translateVars, installed, storage, popupVars>>

\* handleTranslation calls translate with the click's selection text
HandleTranslation ==
    /\ hpc = "translate"
    /\ translate(click.selectionText, languages.sourceLang, languages.targetLang)

\* handleTranslation after  await translate(...):  return on a failure or an
\* empty translation, else send the translated text to the content script
HandleTranslationResume ==
    /\ hpc = "translate"
    /\ tpc \in {"resolved", "rejected"}
    /\ IF tpc = "resolved" /\ tresult.success /\ tresult.translatedText # << >>
       THEN /\ sent' = Append(sent, TranslateSelectionMessage(languages.sourceLang,
                                        languages.targetLang, tresult.translatedText))
            /\ hpc' = "send"
       ELSE /\ hpc' = "done"
            /\ sent' = sent
    /\ UNCHANGED <<click, settings, languages, injections, attempt, selectedText, response>>
    /\ UNCHANGED <<coreVars, translateVars, installed, storage, popupVars>>

\* chrome.tabs.sendMessage rejects (no content script in the tab): the catch
\* of handleConversion / handleTranslation calls tryInjectAndRetry, whose own
\* catch ends the second attempt
SendMessageRejects ==
    /\ hpc = "send"
    /\ hpc' = IF attempt = 1 THEN "inject" ELSE "done"
    /\ UNCHANGED <<click, settings, languages, sent, injections, attempt, selectedText,
                   response>>
    /\ UNCHANGED <<coreVars, translateVars, installed, storage, popupVars>>

\* tryInjectAndRetry: executeScript, then the message is sent again
ExecuteScript(injected) ==
    /\ hpc = "inject"
    /\ injections' = injections + 1
    /\ IF injected
       THEN /\ sent' = Append(sent, sent[Len(sent)])
            /\ attempt' = 2
            /\ hpc' = "send"
       ELSE /\ hpc' = "done"
            /\ UNCHANGED <<sent, attempt>>
    /\ UNCHANGED <<click, settings, languages, selectedText, response>>
    /\ UNCHANGED <<coreVars, translateVars, installed, storage, popupVars>>

\* the content script's onMessage listener gets the message: handleConversion
\* up to its convert call, or the whole of handleTranslation
ContentScriptOnMessage(selection, accepted) ==
    /\ hpc = "send"
    /\ LET message == sent[Len(sent)]
       IN  IF selection.rangeCount = 0
           THEN /\ response' = NotConverted("No text selected")
                /\ hpc' = "responded"
                /\ selectedText' = selectedText
           ELSE IF message.action = "CONVERT_SELECTION"
           THEN IF IsBlank(selection.text)
                THEN /\ response' = NotConverted("Selection is empty")
                     /\ hpc' = "responded"
                     /\ selectedText' = selection.text
                ELSE /\ hpc' = "convert"
                     /\ selectedText' = selection.text
                     /\ response' = response
           ELSE /\ response' = IF IsBlank(message.selectedText)
                               THEN NotConverted("Translation is empty")
                               ELSE replaceSelection(message.selectedText, accepted)
                /\ hpc' = "responded"
                /\ selectedText' = selectedText
    /\ UNCHANGED <<click, settings, languages, sent, injections, attempt>>
    /\ UNCHANGED <<coreVars, translateVars, installed, storage, popupVars>>

\* the content script's handleConversion calls convert(selectedText, conversionType)
HandleConversion ==
    /\ hpc = "convert"
    /\ Convert(selectedText, sent[Len(sent)].conversionType)

\* handleConversion after convert: the catch, the unchanged text, or
\* replaceSelection; sendResponse(result)
HandleConversionRespond(accepted) ==
    /\ hpc = "convert"
    /\ pc \in {"returned", "threw"}
    /\ response' = IF pc = "threw" THEN NotConverted("Conversion error: Unknown converter")
                   ELSE IF result = selectedText THEN Converted(result)
                   ELSE replaceSelection(result, accepted)
    /\ hpc' = "responded"
    /\ UNCHANGED <<click, settings, languages, sent, injections, attempt, selectedText>>
    /\ UNCHANGED <<coreVars, translateVars, installed, storage, popupVars>>

\* the service worker gets the response and logs it
SendMessageResolves ==
    /\ hpc = "responded"
    /\ hpc' = "done"
    /\ UNCHANGED <<click, settings, languages, sent, injections, attempt, selectedText,
                   response>>
    /\ UNCHANGED <<coreVars, translateVars, installed, storage, popupVars>>

\* the registry's life: loading, later registrations, one convert call
\* (callers run only between module-level statements: pc = "idle")
Next ==
    \/ LoadBuiltIn
    \/ (pc = "idle" /\ \E c \in UserConverters : RegisterConverter(c))
    \/ (pc = "idle" /\ \E t \in RegTexts, ty \in AllIds : Convert(t, ty))
    \/ ScanStep
    \/ Return

Spec == Init /\ [][Next]_vars

\* the loaded module: convert calls on every input
NextLoaded ==
    \/ (pc = "idle" /\ \E t \in Inputs, ty \in AllIds : Convert(t, ty))
    \/ ScanStep
    \/ Return

ScanSpec == InitLoaded /\ [][NextLoaded]_vars

\* the loaded module: convert calls on the inputs of the composition laws
NextRoundTrip ==
    \/ (pc = "idle" /\ \E t \in RoundTripInputs, ty \in AllIds : Convert(t, ty))
    \/ ScanStep
    \/ Return

RoundTripSpec == InitLoaded /\ [][NextRoundTrip]_vars

\* the loaded module: analyzeScript and suggestConversion calls
NextClassifier ==
    \/ (pc = "idle" /\ \E t \in ClassifierInputs : AnalyzeScript(t))
    \/ CountStep
    \/ AnalyzeReturn
    \/ suggestConversion

ClassifierSpec == InitLoaded /\ [][NextClassifier]_vars

\* the translation service: one translate call, the providers answering in
\* every way
NextTranslate ==
    \/ (tpc = "idle" /\ \E t \in TranslateTexts, s \in Languages, g \in Languages :
                            translate(t, s, g))
    \/ \E r \in GoogleResponses : AwaitGoogle(r)
    \/ \E r \in MyMemoryResponses : AwaitMyMemory(r)
    \/ \E r \in LibreTranslateResponses : AwaitLibreTranslate(r)

TranslateSpec == InitLoaded /\ [][NextTranslate]_vars

\* the popup's settings: checkbox changes and the service worker serving them
NextSettings ==
    \/ OnInstalled
    \/ OpenPopup
    \/ ChangeEnabled
    \/ ChangeNotifications
    \/ OnMessage
    \/ \E k \in 1..Len(saves) : SaveSettingsResume(k)

SettingsSpec == InitExtension /\ [][NextSettings]_vars

\* one context menu click, while the stored settings may change
NextMenu ==
    \/ OnInstalled
    \/ \E s \in StoredSettings : UpdateSettings(s)
    \/ (hpc = "idle" /\ \E tabId \in {NoTab, 7}, menuItemId \in ClickableMenuIds,
                           selectionText \in SelectionTexts :
                             OnClicked(tabId, menuItemId, selectionText))
    \/ OnClickedResume
    \/ HandleTranslation
    \/ \E r \in GoogleResponses : AwaitGoogle(r)
    \/ \E r \in MyMemoryResponses : AwaitMyMemory(r)
    \/ \E r \in LibreTranslateResponses : AwaitLibreTranslate(r)
    \/ HandleTranslationResume
    \/ SendMessageRejects
    \/ \E injected \in BOOLEAN : ExecuteScript(injected)
    \/ \E selection \in PageSelections, accepted \in BOOLEAN :
           ContentScriptOnMessage(selection, accepted)
    \/ HandleConversion
    \/ ScanStep
    \/ Return
    \/ \E accepted \in BOOLEAN : HandleConversionRespond(accepted)
    \/ SendMessageResolves

MenuSpec == InitExtension /\ [][NextMenu]_vars

(***************************************************************************)
(* Vocabulary of the properties.                                           *)
(***************************************************************************)
\* the keys of function f's index whose text equals the lower-cased input at
\* the 0-based position pos (read from the lookup map, not from the sorted list)
MatchingKeys(f, t, pos) ==
    {k \in {LookupOf(f)[n].key : n \in 1..Len(LookupOf(f))} :
        /\ pos + Len(k) <= Len(t)
        /\ \A j \in 1..Len(k) : toLowerCaseUnit(t[pos + j]) = k[j]}

IsUpperUnit(c) == toLowerCaseUnit(c) # c

IsLowerUnit(c) == toUpperCaseUnit(c) # c

IsCasedUnit(c) == IsUpperUnit(c) \/ IsLowerUnit(c)

IsLatinLetter(c) == c \in 65..90 \/ c \in 97..122

IsCyrillicLetter(c) == c \in 1024..1279

\* the letters of the alphabet function f converts from
IsSourceLetter(f, c) ==
    IF f \in {"latinToCyrillicConvert", "uzbekLatinToCyrillic"}
    THEN IsLatinLetter(c)
    ELSE IsCyrillicLetter(c)

\* the function each built-in id stands for
FunctionOf(id) ==
    CASE id = "latin-to-cyrillic"  -> "latinToCyrillicConvert"
      [] id = "cyrillic-to-latin"  -> "cyrillicToLatinConvert"
      [] id = "uz-latn-to-uz-cyrl" -> "uzbekLatinToCyrillic"
      [] id = "uz-cyrl-to-uz-latn" -> "uzbekCyrillicToLatin"

BuiltInIds ==
    {"latin-to-cyrillic", "cyrillic-to-latin", "uz-latn-to-uz-cyrl", "uz-cyrl-to-uz-latn"}

\* the registerConverter calls made so far for id
CallsFor(id) == {n \in 1..Len(calls) : calls[n].id = id}

FirstCallFor(id) == CHOOSE n \in CallsFor(id) : \A m \in CallsFor(id) : n <= m

LastCallFor(id) == CHOOSE n \in CallsFor(id) : \A m \in CallsFor(id) : m <= n

\* the last call that passed converter c
CallOf(c) ==
    CHOOSE n \in 1..Len(calls) : calls[n] = c /\ \A m \in (n + 1)..Len(calls) : calls[m] # c

\* sample texts named by the properties
T_shchuka == <<115, 104, 99, 104, 117, 107, 97>>

T_PRIVET == <<80, 82, 73, 86, 69, 84>>

T_Privet == <<80, 114, 105, 118, 101, 116>>

T_Shch == <<83, 104, 99, 104>>

(***************************************************************************)
(* C1  Greedy longest match.  In each of the four converters, every loop   *)
(* iteration at cursor i consumes the longest key of the index that equals *)
(* the lower-cased input at i (and passes one character through when no    *)
(* key matches there); latinToCyrillicConvert("shchuka") consumes "shch"   *)
(* first and returns U+0449 U+0443 U+043A U+0430.                          *)
(***************************************************************************)
C1_GreedyLongestMatch ==
    /\ [][ScanStep =>
            LET M == MatchingKeys(fn, text, i)
            IN  IF M = {}
                THEN ~matched' /\ i' = i + 1
                ELSE /\ matched'
                     /\ key' \in M
                     /\ \A k \in M : Len(k) <= Len(key')
                     /\ chunk' = SubSeq(text, i + 1, i + Len(key'))
                     /\ i' = i + Len(key')]_vars
    /\ [](/\ (fn = "latinToCyrillicConvert" /\ text = T_shchuka /\ i \in 1..4)
               => (i = 4 /\ key = <<115, 104, 99, 104>>)
          /\ (fn = "latinToCyrillicConvert" /\ text = T_shchuka /\ pc = "returned")
               => result = <<1097, 1091, 1082, 1072>>)

\* "shchuka" has been converted by the generic Latin-to-Cyrillic converter
C1_Witness ==
    /\ pc = "returned" /\ fn = "latinToCyrillicConvert" /\ text = T_shchuka
    /\ result = <<1097, 1091, 1082, 1072>>

(***************************************************************************)
(* C2  Case rule, per matched token.  A chunk that contains a cased letter *)
(* and equals its own upper-case form emits the target fully upper-cased;  *)
(* otherwise a chunk whose first character is uppercase emits the target   *)
(* with only its first character upper-cased; otherwise the target is      *)
(* emitted unchanged.  "PRIVET", "Privet" and "Shch" convert as stated.    *)
(***************************************************************************)
CaseRule(source, target) ==
    IF (\E n \in 1..Len(source) : IsCasedUnit(source[n]))
         /\ (\A n \in 1..Len(source) : toUpperCaseUnit(source[n]) = source[n])
    THEN [n \in 1..Len(target) |-> toUpperCaseUnit(target[n])]
    ELSE IF Len(source) > 0 /\ IsUpperUnit(source[1])
         THEN [n \in 1..Len(target) |->
                  IF n = 1 THEN toUpperCaseUnit(target[n]) ELSE target[n]]
         ELSE target

C2_CaseRule ==
    /\ [][(ScanStep /\ matched') =>
            result' = result \o CaseRule(chunk', MapGet(LookupOf(fn), key'))]_vars
    /\ [](/\ (fn = "latinToCyrillicConvert" /\ pc = "returned" /\ text = T_PRIVET)
               => result = <<1055, 1056, 1048, 1042, 1045, 1058>>
          /\ (fn = "latinToCyrillicConvert" /\ pc = "returned" /\ text = T_Privet)
               => result = <<1055, 1088, 1080, 1074, 1077, 1090>>
          /\ (fn = "latinToCyrillicConvert" /\ pc = "returned" /\ text = T_Shch)
               => result = <<1065>>)

\* the chunk "Shch" has been converted to the single capital U+0429
C2_Witness ==
    /\ pc = "returned" /\ fn = "latinToCyrillicConvert" /\ text = T_Shch
    /\ matched /\ chunk = T_Shch /\ result = <<1065>>

(***************************************************************************)
(* C3  Case preservation, all caps.  For each of the four converters, when *)
(* the input has an uppercase letter and no lowercase letter (every cased  *)
(* letter is uppercase), the returned string has no lowercase letter, also *)
(* when the input holds tokens without a cased letter such as the          *)
(* apostrophe.                                                             *)
(***************************************************************************)
IsAllCaps(t) ==
    /\ \E n \in 1..Len(t) : IsUpperUnit(t[n])
    /\ \A n \in 1..Len(t) : ~IsLowerUnit(t[n])

C3_AllCapsPreserved ==
    (pc = "returned" /\ IsAllCaps(text))
        => \A n \in 1..Len(result) : ~IsLowerUnit(result[n])

(***************************************************************************)
(* C4  Case preservation, capitalized word.  For each of the four          *)
(* converters, when the input is one uppercase letter of the source        *)
(* alphabet followed only by lowercase letters of the source alphabet, the *)
(* returned string starts with an uppercase character and has no other     *)
(* uppercase character.  (Stated for inputs of two or more letters: a      *)
(* one-letter input is also an all-caps input.)                            *)
(***************************************************************************)
IsCapitalizedWord(f, t) ==
    /\ Len(t) >= 2
    /\ IsSourceLetter(f, t[1]) /\ IsUpperUnit(t[1])
    /\ \A n \in 2..Len(t) : IsSourceLetter(f, t[n]) /\ IsLowerUnit(t[n])

C4_CapitalizedPreserved ==
    (pc = "returned" /\ IsCapitalizedWord(fn, text))
        => /\ Len(result) >= 1
           /\ IsUpperUnit(result[1])
           /\ \A n \in 2..Len(result) : ~IsUpperUnit(result[n])

(***************************************************************************)
(* C5  Passthrough.  For each of the four converters, an input in which no *)
(* index key matches at any position is returned unchanged.                *)
(***************************************************************************)
NoKeyMatches(f, t) == \A pos \in 0..(Len(t) - 1) : MatchingKeys(f, t, pos) = {}

C5_Passthrough ==
    (pc = "returned" /\ NoKeyMatches(fn, text)) => result = text

\* a non-empty input without any key of the running converter has been returned
C5_Witness ==
    /\ pc = "returned" /\ Len(text) >= 3 /\ NoKeyMatches(fn, text) /\ result = text

(***************************************************************************)
(* C6  Totality and termination.  No index key is empty, so every loop     *)
(* iteration advances the cursor by at least one character and never past  *)
(* the end of the input; the loop throws nothing and returns with the      *)
(* cursor equal to the input length.  The distance Len(text) - i is a      *)
(* variant: it stays >= 0 and every iteration decreases it, so a call runs *)
(* at most Len(text) iterations before it returns.                         *)
(***************************************************************************)
C6_Termination ==
    /\ [](\A f \in ConverterFns :
            \A n \in 1..Len(SortedKeysOf(f)) : Len(SortedKeysOf(f)[n]) >= 1)
    /\ [][ScanStep => (i' > i /\ i' <= Len(text))]_vars
    /\ [](pc = "scan" =>
             /\ i <= Len(text)
             /\ error = NoError)
    /\ [](pc = "returned" => (i = Len(text) /\ error = NoError))

\* a conversion of several iterations has returned with the cursor at the end
C6_Witness ==
    /\ pc = "returned" /\ Len(text) >= 3 /\ i = Len(text) /\ matched /\ Len(key) >= 2

(***************************************************************************)
(* C7  Unknown id.  convert(text, id) with an id that was never registered *)
(* throws Error("Unknown converter: id"), calls no converter function and  *)
(* leaves the registry unchanged.                                          *)
(***************************************************************************)
C7_UnknownId ==
    /\ []((pc \in {"scan", "returned", "threw"} /\ CallsFor(type) = {})
             => /\ pc = "threw"
                /\ error = [name |-> "Error", message |-> <<"Unknown converter: ", type>>]
                /\ fn = "none" /\ i = 0 /\ result = << >>)
    /\ [][pc' = "threw" => (converters' = converters /\ calls' = calls)]_vars

\* convert has thrown for "custom" after a later registration under another id
C7_Witness ==
    /\ pc = "threw" /\ type = "custom" /\ Len(calls) > Len(BuiltIns)
    /\ Len(text) > 0

(***************************************************************************)
(* C8  Registry overwrite.  registerConverter throws nothing; after any    *)
(* sequence of registrations, getConverter(id) is the converter passed by  *)
(* the last registerConverter call for id (undefined if there was none),   *)
(* whatever was registered under other ids, and convert(text, id) calls    *)
(* that converter's function.                                              *)
(***************************************************************************)
C8_LastRegisteredWins ==
    /\ (pc \in {"load", "idle"}) => error = NoError
    /\ \A id \in AllIds :
          getConverter(converters, id) =
              IF CallsFor(id) = {} THEN Undefined ELSE calls[LastCallFor(id)]
    /\ (pc \in {"scan", "returned"}) => fn = calls[LastCallFor(type)].convert

\* convert ran the function registered later under a built-in id
C8_Witness ==
    /\ pc = "returned" /\ type = "latin-to-cyrillic" /\ fn = "cyrillicToLatinConvert"
    /\ Cardinality(CallsFor("latin-to-cyrillic")) >= 2
    /\ Cardinality(CallsFor("custom")) >= 1

(***************************************************************************)
(* C9  Listing order, as stated: converter A precedes converter B in       *)
(* getAllConverters exactly when the call that registered A happened       *)
(* before the call that registered B.                                      *)
(***************************************************************************)
C9_RegistrationOrder ==
    LET L == getAllConverters(converters)
    IN  \A a, b \in 1..Len(L) : (a < b) <=> (CallOf(L[a]) < CallOf(L[b]))

(***************************************************************************)
(* C9  Listing order, amended: getAllConverters holds, for every id        *)
(* registered so far, the converter registered last under that id, and     *)
(* lists them in the order in which their ids were first registered:       *)
(* re-registering an id replaces the converter in its place.               *)
(***************************************************************************)
C9_FirstRegistrationOrder ==
    LET L == getAllConverters(converters)
    IN  /\ {L[a].id : a \in 1..Len(L)} = {calls[n].id : n \in 1..Len(calls)}
        /\ \A a \in 1..Len(L) : L[a] = calls[LastCallFor(L[a].id)]
        /\ \A a, b \in 1..Len(L) :
              (a < b) <=> (FirstCallFor(L[a].id) < FirstCallFor(L[b].id))

\* a built-in id has been registered again and a new id after it
C9_Witness ==
    /\ Len(calls) = Len(BuiltIns) + 2
    /\ calls[Len(BuiltIns) + 1].id = "uz-cyrl-to-uz-latn"
    /\ calls[Len(BuiltIns) + 2].id = "custom"
    /\ Len(getAllConverters(converters)) = Len(BuiltIns) + 1

(***************************************************************************)
(* C10  After module initialisation the registry holds exactly the four    *)
(* built-in ids, and convert(text, id) returns what the corresponding      *)
(* function returns for text.                                              *)
(***************************************************************************)
DirectCall(f, t) ==
    CASE f = "latinToCyrillicConvert" -> latinToCyrillicConvert(t)
      [] f = "cyrillicToLatinConvert" -> cyrillicToLatinConvert(t)
      [] f = "uzbekLatinToCyrillic"   -> uzbekLatinToCyrillic(t)
      [] f = "uzbekCyrillicToLatin"   -> uzbekCyrillicToLatin(t)

C10_BuiltInRegistry ==
    /\ Len(converters) = 4
    /\ {converters[n].key : n \in 1..Len(converters)} = BuiltInIds
    /\ (pc = "threw") => type \notin BuiltInIds
    /\ (pc = "returned") => result = DirectCall(FunctionOf(type), text)

\* convert has returned the Uzbek Latin-to-Cyrillic conversion of "G'o'ng"
C10_Witness ==
    /\ pc = "returned" /\ type = "uz-latn-to-uz-cyrl"
    /\ text = <<71, 39, 111, 39, 110, 103>>
    /\ result = <<1170, 1118, 1085, 1075>>

(***************************************************************************)
(* C11  Empty input.  convert("", id) returns "" for each of the four      *)
(* built-in ids: the call throws nothing, the loop runs no iteration and   *)
(* the returned string is empty.                                           *)
(***************************************************************************)
C11_EmptyInput ==
    /\ (pc = "idle") => \A f \in ConverterFns : DirectCall(f, << >>) = << >>
    /\ (pc \in {"scan", "returned", "threw"} /\ text = << >> /\ type \in BuiltInIds) =>
          /\ pc # "threw"
          /\ error = NoError
          /\ i = 0
          /\ result = << >>

\* convert("", "uz-cyrl-to-uz-latn") has returned ""
C11_Witness ==
    /\ pc = "returned" /\ type = "uz-cyrl-to-uz-latn"
    /\ text = << >> /\ result = << >>

(***************************************************************************)
(* C12  Uzbek documented examples, as stated:                              *)
(* uzbekLatinToCyrillic("salom") is U+0441 U+0430 U+043B U+043E U+043C and *)
(* uzbekLatinToCyrillic("rahmat") is U+0440 U+0430 U+0445 U+043C U+0430    *)
(* U+0442 (with U+0445, the Cyrillic letter ha).                           *)
(***************************************************************************)
T_salom == <<115, 97, 108, 111, 109>>

T_rahmat == <<114, 97, 104, 109, 97, 116>>

C12_UzbekExamples ==
    (pc = "returned" /\ type = "uz-latn-to-uz-cyrl") =>
        /\ (text = T_salom) => result = <<1089, 1072, 1083, 1086, 1084>>
        /\ (text = T_rahmat) => result = <<1088, 1072, 1093, 1084, 1072, 1090>>

(***************************************************************************)
(* C13  Generic documented examples: latinToCyrillicConvert("privet") is   *)
(* U+043F U+0440 U+0438 U+0432 U+0435 U+0442 and                           *)
(* latinToCyrillicConvert("spasibo") is U+0441 U+043F U+0430 U+0441 U+0438 *)
(* U+0431 U+043E.                                                          *)
(***************************************************************************)
T_privet == <<112, 114, 105, 118, 101, 116>>

T_spasibo == <<115, 112, 97, 115, 105, 98, 111>>

C13_GenericExamples ==
    (pc = "returned" /\ type = "latin-to-cyrillic") =>
        /\ (text = T_privet) => result = <<1087, 1088, 1080, 1074, 1077, 1090>>
        /\ (text = T_spasibo) => result = <<1089, 1087, 1072, 1089, 1080, 1073, 1086>>

\* convert("spasibo", "latin-to-cyrillic") has returned
C13_Witness ==
    /\ pc = "returned" /\ type = "latin-to-cyrillic"
    /\ text = T_spasibo
    /\ result = <<1089, 1087, 1072, 1089, 1080, 1073, 1086>>

(***************************************************************************)
(* C14  Round trip of "x", as stated: latinToCyrillicConvert("x") is       *)
(* U+043A U+0441 and cyrillicToLatinConvert(U+043A U+0441) is "ks", so     *)
(* converting "x" to Cyrillic and back gives "ks".                         *)
(***************************************************************************)
T_x == <<120>>

T_ks == <<107, 115>>

T_cyrillic_ks == <<1082, 1089>>

C14_LossyRoundTrip ==
    /\ (pc = "returned" /\ type = "latin-to-cyrillic" /\ text = T_x) =>
          result = T_cyrillic_ks
    /\ (pc = "returned" /\ type = "cyrillic-to-latin" /\ text = T_cyrillic_ks) =>
          result = T_ks

(***************************************************************************)
(* C14  Round trip of "x", amended: latinToCyrillicConvert("x") is         *)
(* U+043A U+0441 and cyrillicToLatinConvert(U+043A U+0441) is "x" (the     *)
(* reverse index holds the two-character key U+043A U+0441), so converting *)
(* "x" to Cyrillic and back gives "x"; the input the round trip loses is   *)
(* "ks": latinToCyrillicConvert("ks") is U+043A U+0441 too, so converting  *)
(* "ks" to Cyrillic and back gives "x", not "ks".                          *)
(***************************************************************************)
C14_RoundTripOfX ==
    /\ (pc = "returned" /\ type = "latin-to-cyrillic" /\ text \in {T_x, T_ks}) =>
          result = T_cyrillic_ks
    /\ (pc = "returned" /\ type = "cyrillic-to-latin" /\ text = T_cyrillic_ks) =>
          result = T_x
    /\ (pc = "returned" /\ type = "cyrillic-to-latin" /\ text = T_cyrillic_ks) =>
          /\ result = cyrillicToLatinConvert(latinToCyrillicConvert(T_x))
          /\ result = cyrillicToLatinConvert(latinToCyrillicConvert(T_ks))

\* convert(U+043A U+0441, "cyrillic-to-latin") has returned "x"
C14_Witness ==
    /\ pc = "returned" /\ type = "cyrillic-to-latin"
    /\ text = T_cyrillic_ks /\ result = T_x

(***************************************************************************)
(* C15  Classifier thresholds.  For every text with at least one counted   *)
(* letter, analyzeScript returns "latin" exactly when the Latin letters    *)
(* are at least 90% of the counted letters, "cyrillic" exactly when the    *)
(* Cyrillic letters are at least 90%, and "mixed" in every other case;     *)
(* 9 Latin and 1 Cyrillic letters give "latin", 89 Latin and 11 Cyrillic   *)
(* letters give "mixed".                                                   *)
(***************************************************************************)
LatinLetters(t) == Cardinality({k \in 1..Len(t) : IsLatinLetter(t[k])})

CyrillicLetters(t) == Cardinality({k \in 1..Len(t) : IsCyrillicLetter(t[k])})

CountedLetters(t) == LatinLetters(t) + CyrillicLetters(t)

C15_Thresholds ==
    (pc \in {"analyzed", "suggested"} /\ CountedLetters(text) > 0) =>
        LET L == LatinLetters(text)
            C == CyrillicLetters(text)
            T == CountedLetters(text)
        IN  /\ (analysis.type = "latin") <=> (10 * L >= 9 * T)
            /\ (analysis.type = "cyrillic") <=> (10 * C >= 9 * T)
            /\ (analysis.type = "mixed") <=> (10 * L < 9 * T /\ 10 * C < 9 * T)
            /\ (L = 9 /\ C = 1) => analysis.type = "latin"
            /\ (L = 89 /\ C = 11) => analysis.type = "mixed"

\* analyzeScript has returned "latin" for a text of 9 Latin letters and 1
\* Cyrillic letter
C15_Witness ==
    /\ pc = "analyzed"
    /\ LatinLetters(text) = 9 /\ CyrillicLetters(text) = 1
    /\ analysis.type = "latin"

(***************************************************************************)
(* C16  Classifier counting.  analyzeScript counts each character as Latin *)
(* (A-Z, a-z), as Cyrillic (U+0400-U+04FF) or not at all, never as both,   *)
(* so latinCount + cyrillicCount = totalLetters; when totalLetters is 0    *)
(* (the empty string included) the result is "unknown" with all counts and *)
(* both percentages 0, and "unknown" is returned in no other case.         *)
(***************************************************************************)
C16_Counting ==
    /\ [][CountStep =>
            LET char == text[i + 1]
            IN  /\ latinCount' - latinCount = (IF IsLatinLetter(char) THEN 1 ELSE 0)
                /\ cyrillicCount' - cyrillicCount = (IF IsCyrillicLetter(char) THEN 1 ELSE 0)
                /\ (latinCount' + cyrillicCount') - (latinCount + cyrillicCount) \in {0, 1}]_vars
    /\ [](pc \in {"analyzed", "suggested"} =>
            /\ analysis.latinCount = LatinLetters(text)
            /\ analysis.cyrillicCount = CyrillicLetters(text)
            /\ analysis.latinCount + analysis.cyrillicCount = analysis.totalLetters
            /\ (analysis.type = "unknown") <=> (analysis.totalLetters = 0)
            /\ (CountedLetters(text) = 0) =>
                  /\ analysis.type = "unknown"
                  /\ analysis.latinCount = 0 /\ analysis.cyrillicCount = 0
                  /\ analysis.totalLetters = 0
                  /\ analysis.latinPercentage.num = 0
                  /\ analysis.cyrillicPercentage.num = 0)

\* analyzeScript has returned for a text that holds Latin letters, Cyrillic
\* letters outside U+0410..U+044F and characters it does not count
C16_Witness ==
    /\ pc = "analyzed"
    /\ analysis.latinCount > 0
    /\ \E k \in 1..Len(text) : text[k] \in 1024..1279 /\ text[k] \notin 1040..1103
    /\ analysis.totalLetters < Len(text)
    /\ analysis.latinCount + analysis.cyrillicCount = analysis.totalLetters

(***************************************************************************)
(* C17  suggestConversion is determined by analyzeScript alone: it returns *)
(* "latin-to-cyrillic" exactly when the text classifies as "latin",        *)
(* "cyrillic-to-latin" exactly when it classifies as "cyrillic", and null  *)
(* for "mixed" and "unknown"; it never returns an Uzbek conversion id.     *)
(***************************************************************************)
C17_SuggestConversion ==
    /\ (pc = "suggested") =>
          /\ analysis = ScriptAnalysis(LatinLetters(text), CyrillicLetters(text))
          /\ (suggestion = "latin-to-cyrillic") <=> (analysis.type = "latin")
          /\ (suggestion = "cyrillic-to-latin") <=> (analysis.type = "cyrillic")
          /\ (suggestion = "null") <=> (analysis.type \in {"mixed", "unknown"})
          /\ suggestion \in {"latin-to-cyrillic", "cyrillic-to-latin", "null"}
          /\ suggestion \notin {"uz-latn-to-uz-cyrl", "uz-cyrl-to-uz-latn"}
    /\ (pc # "suggested") => suggestion = "none"

\* suggestConversion has returned null for a mixed text with more Latin than
\* Cyrillic letters
C17_Witness ==
    /\ pc = "suggested"
    /\ analysis.type = "mixed"
    /\ analysis.latinCount > analysis.cyrillicCount
    /\ suggestion = "null"

(***************************************************************************)
(* C18  Duplicate source tokens, as stated: in every lookup index, when    *)
(* several table entries supply the same source token, the index maps the  *)
(* token to the target of the first such entry in table order, so that a   *)
(* converter given exactly that token returns that target; for the generic *)
(* Cyrillic-to-Latin index U+0432 gives "v", U+043A "k", U+0445 "kh" and   *)
(* U+0446 "ts".                                                            *)
(***************************************************************************)
\* the entries of the main table of function f's direction, in table order, as
\* [source, target]
MainEntries(f) ==
    CASE f = "latinToCyrillicConvert" ->
           [n \in 1..Len(LATIN_CYRILLIC_MAP) |->
               [source |-> LATIN_CYRILLIC_MAP[n].latin,
                target |-> LATIN_CYRILLIC_MAP[n].cyrillic]]
      [] f = "cyrillicToLatinConvert" ->
           [n \in 1..Len(LATIN_CYRILLIC_MAP) |->
               [source |-> LATIN_CYRILLIC_MAP[n].cyrillic,
                target |-> LATIN_CYRILLIC_MAP[n].latin]]
      [] f = "uzbekLatinToCyrillic" ->
           [n \in 1..Len(UZBEK_LATIN_CYRILLIC_MAP) |->
               [source |-> UZBEK_LATIN_CYRILLIC_MAP[n].latin,
                target |-> UZBEK_LATIN_CYRILLIC_MAP[n].cyrillic]]
      [] f = "uzbekCyrillicToLatin" ->
           [n \in 1..Len(UZBEK_LATIN_CYRILLIC_MAP) |->
               [source |-> UZBEK_LATIN_CYRILLIC_MAP[n].cyrillic,
                target |-> UZBEK_LATIN_CYRILLIC_MAP[n].latin]]

\* the extras of function f's direction, in table order
ExtraEntries(f) ==
    IF f = "uzbekCyrillicToLatin"
    THEN [n \in 1..Len(UZBEK_CYRILLIC_TO_LATIN_EXTRAS) |->
             [source |-> UZBEK_CYRILLIC_TO_LATIN_EXTRAS[n].cyrillic,
              target |-> UZBEK_CYRILLIC_TO_LATIN_EXTRAS[n].latin]]
    ELSE << >>

\* every entry that feeds function f's index: the main table, then the extras
AllEntries(f) == MainEntries(f) \o ExtraEntries(f)

\* the positions of the entries of a sequence whose source token is tok
Suppliers(entries, tok) == {n \in 1..Len(entries) : entries[n].source = tok}

\* the target of the first entry of a sequence whose source token is tok
FirstTarget(entries, tok) ==
    LET n == CHOOSE a \in Suppliers(entries, tok) : \A b \in Suppliers(entries, tok) : a <= b
    IN  entries[n].target

C18_FirstEntryWins ==
    /\ (pc = "returned" /\ type \in BuiltInIds /\ Suppliers(AllEntries(fn), text) # {}) =>
          result = FirstTarget(AllEntries(fn), text)
    /\ (pc = "returned" /\ type = "cyrillic-to-latin") =>
          /\ (text = <<1074>>) => result = <<118>>
          /\ (text = <<1082>>) => result = <<107>>
          /\ (text = <<1093>>) => result = <<107, 104>>
          /\ (text = <<1094>>) => result = <<116, 115>>

(***************************************************************************)
(* C19  Table invariant, as stated: for each of the four directions, no    *)
(* two entries of the main mapping table have the same source token, so a  *)
(* key a converter matches is the source token of at most one entry of its *)
(* direction's main table.                                                 *)
(***************************************************************************)
C19_NoDuplicateSources ==
    (pc = "scan" /\ matched) => Cardinality(Suppliers(MainEntries(fn), key)) <= 1

(***************************************************************************)
(* C19  Table invariant, amended: in the generic Latin-to-Cyrillic, Uzbek  *)
(* Latin-to-Cyrillic and Uzbek Cyrillic-to-Latin directions no two entries *)
(* of the main mapping table have the same source token; in the generic    *)
(* Cyrillic-to-Latin direction exactly the four tokens U+0432, U+043A,     *)
(* U+0445 and U+0446 are the source token of two entries each (v and w,    *)
(* k and q, kh and h, ts and c) and every other token of one entry.        *)
(***************************************************************************)
SharedSources(entries) ==
    {entries[n].source : n \in {a \in 1..Len(entries) :
                                  Cardinality(Suppliers(entries, entries[a].source)) > 1}}

GenericSharedCyrillic == {<<1074>>, <<1082>>, <<1093>>, <<1094>>}

\* the tables are static: their part is stated of the loaded module, before
\* any call (pc = "idle"), and of every key a converter matches
C19_DuplicateSources ==
    /\ (pc = "idle") =>
          /\ \A f \in ConverterFns \ {"cyrillicToLatinConvert"} :
                SharedSources(MainEntries(f)) = {}
          /\ SharedSources(MainEntries("cyrillicToLatinConvert")) = GenericSharedCyrillic
          /\ \A tok \in GenericSharedCyrillic :
                Cardinality(Suppliers(MainEntries("cyrillicToLatinConvert"), tok)) = 2
          /\ {MainEntries("cyrillicToLatinConvert")[n].target :
                  n \in UNION {Suppliers(MainEntries("cyrillicToLatinConvert"), tok) :
                                  tok \in GenericSharedCyrillic}}
                = {<<118>>, <<119>>, <<107>>, <<113>>, <<107, 104>>, <<104>>,
                   <<116, 115>>, <<99>>}
    /\ (pc = "scan" /\ matched) =>
          LET n      == Cardinality(Suppliers(MainEntries(fn), key))
              shared == fn = "cyrillicToLatinConvert" /\ key \in GenericSharedCyrillic
          IN  /\ shared => n = 2
              /\ ~shared => n <= 1
              /\ (n = 0) => Suppliers(ExtraEntries(fn), key) # {}

\* cyrillicToLatinConvert has just matched the key U+0432, which two entries
\* of LATIN_CYRILLIC_MAP supply
C19_Witness ==
    /\ pc = "scan" /\ matched /\ fn = "cyrillicToLatinConvert"
    /\ key = <<1074>>
    /\ Cardinality(Suppliers(MainEntries(fn), key)) = 2

WithZeroLengthKey(f) == Append(SortedKeysOf(f), << >>)

Units(t) == {t[n] : n \in 1..Len(t)}

C22_EmptyTarget ==
    /\ []((pc = "idle") => /\ MapHas(uzbek_cyrillicToLatin, <<1100>>)
                            /\ MapGet(uzbek_cyrillicToLatin, <<1100>>) = << >>)
    /\ [][(ScanStep /\ matched' /\ MapGet(LookupOf(fn), key') = << >>) =>
            /\ result' = result
            /\ i' = i + Len(chunk')
            /\ Len(chunk') > 0]_vars
    /\ [][(ScanStep /\ fn = "uzbekCyrillicToLatin" /\ text[i + 1] \in SoftSigns) =>
            /\ matched' /\ chunk' = <<text[i + 1]>>
            /\ result' = result /\ i' = i + 1]_vars
    /\ []((pc = "returned" /\ fn = "uzbekCyrillicToLatin") =>
            /\ Units(result) \cap SoftSigns = {}
            /\ \A p \in 1..Len(text) :
                   text[p] \in SoftSigns =>
                       result = uzbekCyrillicToLatin(SubSeq(text, 1, p - 1))
                                   \o uzbekCyrillicToLatin(SubSeq(text, p + 1, Len(text))))

\* uzbekCyrillicToLatin has returned "nG" for U+043D U+042C U+0413
C22_Witness ==
    /\ pc = "returned" /\ fn = "uzbekCyrillicToLatin"
    /\ text = <<1085, 1068, 1043>>
    /\ result = <<110, 71>>

(***************************************************************************)
(* C23  Idempotence: for each of the four converters f and every input x,  *)
(* f(f(x)) = f(x); no key of f matches at any position of f(x), so a       *)
(* second run passes every character through.                              *)
(***************************************************************************)
KeyUnits(f) == UNION {Units(LookupOf(f)[n].key) : n \in 1..Len(LookupOf(f))}

TargetUnits(f) == UNION {Units(LookupOf(f)[n].value) : n \in 1..Len(LookupOf(f))}

SingleUnitKeys(f) == {LookupOf(f)[n].key[1] : n \in {m \in 1..Len(LookupOf(f)) :
                                                     Len(LookupOf(f)[m].key) = 1}}

C23_Idempotent ==
    /\ (pc = "returned") =>
           /\ DirectCall(fn, result) = result
           /\ \A pos \in 0..(Len(result) - 1) : MatchingKeys(fn, result, pos) = {}
    \* why this holds of every input: a target, in either case, has no
    \* character of a key, and every key has a character that alone is a key
    \* and is therefore never passed through
    /\ (pc = "idle") =>
           \A f \in ConverterFns :
               /\ \A u \in TargetUnits(f) :
                      /\ toLowerCaseUnit(u) \notin KeyUnits(f)
                      /\ toLowerCaseUnit(toUpperCaseUnit(u)) \notin KeyUnits(f)
               /\ \A n \in 1..Len(LookupOf(f)) :
                      Units(LookupOf(f)[n].key) \cap SingleUnitKeys(f) # {}

\* latinToCyrillicConvert has returned a text that keeps a passed-through
\* Latin letter next to converted output ("cs" is not in the table: 'c' 's')
C23_Witness ==
    /\ pc = "returned" /\ fn = "uzbekLatinToCyrillic"
    /\ text = <<99, 115, 104>>
    /\ result = <<99, 1096>>
    /\ uzbekLatinToCyrillic(result) = result

(***************************************************************************)
(* C24  Uzbek lowercase round trip: for every x made only of lowercase     *)
(* ASCII Latin letters, the apostrophe, digits and spaces,                 *)
(* uzbekCyrillicToLatin(uzbekLatinToCyrillic(x)) = x.                      *)
(***************************************************************************)
IsLowercaseInput(t) ==
    \A n \in 1..Len(t) : t[n] \in (97..122) \cup (48..57) \cup {39, 32}

C24_UzbekRoundTrip ==
    (pc = "returned" /\ fn = "uzbekLatinToCyrillic" /\ IsLowercaseInput(text)) =>
        uzbekCyrillicToLatin(result) = text

\* uzbekLatinToCyrillic has returned U+043D U+0433 U+044A for "ng'", which
\* uzbekCyrillicToLatin turns back into "ng'"
C24_Witness ==
    /\ pc = "returned" /\ fn = "uzbekLatinToCyrillic"
    /\ text = <<110, 103, 39>>
    /\ result = <<1085, 1075, 1098>>
    /\ uzbekCyrillicToLatin(result) = text

(***************************************************************************)
(* C25  Translation fallback order: past its guards translate calls the    *)
(* providers strictly in the order Google, MyMemory, LibreTranslate (its   *)
(* instances in list order); it returns the first successful result and    *)
(* calls no provider after a success; it returns a failure only after      *)
(* every provider has failed.  Stated of the requests made so far.         *)
(***************************************************************************)
ProviderOrder ==
    <<"https://translate.googleapis.com", "https://api.mymemory.translated.net">>
    \o instances

ProviderOf(url) ==
    CASE url = ProviderOrder[1] -> "Google"
      [] url = ProviderOrder[2] -> "MyMemory"
      [] OTHER -> "LibreTranslate"

\* an empty or whitespace-only text
IsWhitespaceOnly(t) == \A n \in 1..Len(t) : IsWhiteSpace(t[n])

PassesGuards ==
    /\ ~IsWhitespaceOnly(targs.text)
    /\ targs.sourceLang # targs.targetLang
    /\ ~IsUzbekScriptPair(targs.sourceLang, targs.targetLang)

InGuardCase ==
    \/ IsWhitespaceOnly(targs.text)
    \/ targs.sourceLang = targs.targetLang
    \/ IsUzbekScriptPair(targs.sourceLang, targs.targetLang)

C26_Guards ==
    (tpc # "idle" /\ InGuardCase) =>
        /\ tpc = "resolved"
        /\ fetches = << >>
        /\ IsWhitespaceOnly(targs.text) => tresult = Failure("Empty text")
        /\ (targs.sourceLang = targs.targetLang) =>
               tresult = [success |-> TRUE, translatedText |-> targs.text]
        /\ IsUzbekScriptPair(targs.sourceLang, targs.targetLang) => ~tresult.success

(***************************************************************************)
(* C26  Translation guards, amended: the guards apply in this order.       *)
(* translate returns the failure 'Empty text' for an empty or              *)
(* whitespace-only text, whatever the languages; for any other text it     *)
(* returns success with the text unchanged when source and target language *)
(* are equal, and the failure 'Use transliteration for Uzbek script        *)
(* conversion' for the pair uz-latn / uz-cyrl in either direction; in all  *)
(* three cases no provider is called.                                      *)
(***************************************************************************)
C26_GuardsInOrder ==
    (tpc # "idle" /\ InGuardCase) =>
        /\ tpc = "resolved"
        /\ fetches = << >>
        /\ tresult =
              IF IsWhitespaceOnly(targs.text) THEN Failure("Empty text")
              ELSE IF targs.sourceLang = targs.targetLang
              THEN [success |-> TRUE, translatedText |-> targs.text]
              ELSE Failure("Use transliteration for Uzbek script conversion")

\* translate(" hi", "ru", "ru") has returned " hi" without a request
C26_Witness ==
    /\ tpc = "resolved"
    /\ targs = [text |-> <<32, 104, 105>>, sourceLang |-> "ru", targetLang |-> "ru"]
    /\ tresult = [success |-> TRUE, translatedText |-> <<32, 104, 105>>]
    /\ fetches = << >>

(***************************************************************************)
(* C27  translate reports every outcome as a value: whatever the providers *)
(* do, the promise resolves to a result with success true and a            *)
(* translatedText, or success false and an error; it never rejects.        *)
(***************************************************************************)
C27_NeverRejects ==
    /\ tpc # "rejected"
    /\ (tpc = "resolved") =>
           IF tresult.success
           THEN "translatedText" \in DOMAIN tresult /\ "error" \notin DOMAIN tresult
           ELSE "error" \in DOMAIN tresult /\ "translatedText" \notin DOMAIN tresult

\* every one of the five requests has failed and translate has resolved to
\* its failure result
C27_Witness ==
    /\ tpc = "resolved"
    /\ Len(fetches) = 5
    /\ tresult = Failure("All translation services failed. Please try again later.")

(***************************************************************************)
(* C28  Disabled extension does nothing: when the settings the click       *)
(* listener reads from the storage have enabled = false, the click sends   *)
(* no message to a content script, injects no script and starts no         *)
(* translation request.                                                    *)
(***************************************************************************)
C28_DisabledDoesNothing ==
    (settings # NotRead /\ settings # Undefined /\ ~settings.enabled) =>
        /\ hpc = "done"
        /\ sent = << >>
        /\ injections = 0
        /\ tpc = "idle" /\ fetches = << >>
        /\ pc = "idle"

\* a quick-translate click on a tab with a selection has ended at the
\* disabled check
C28_Witness ==
    /\ hpc = "done"
    /\ click.menuItemId = "quick-translate" /\ click.tabId # NoTab
    /\ settings \in StoredSettings /\ ~settings.enabled
    /\ sent = << >> /\ tpc = "idle"

(***************************************************************************)
(* C29  Settings updates are not lost: once every saveSettings call has    *)
(* completed, the stored settings hold, for each of the two checkbox       *)
(* fields, the value of the last change of that checkbox.                  *)
(***************************************************************************)
AllSaved ==
    /\ ppc = "ready"
    /\ saves # << >>
    /\ swQueue = << >>
    /\ \A k \in 1..Len(saves) : saves[k].stage = "done"

C29_NoLostUpdate ==
    AllSaved => /\ storage.enabled = enabledCheckbox
                /\ storage.showNotifications = notificationsCheckbox

(***************************************************************************)
(* C30  Menu ids match the registry: the ids of CONVERSION_MENU_ITEMS, the *)
(* service worker's CONVERSION_TYPES and the ids registered at startup are *)
(* the same set, so the CONVERT_SELECTION message of a context menu click  *)
(* never makes convert throw 'Unknown converter'.                          *)
(***************************************************************************)
C30_MenuIdsRegistered ==
    /\ {CONVERSION_MENU_ITEMS[n].id : n \in 1..Len(CONVERSION_MENU_ITEMS)} = CONVERSION_TYPES
    /\ CONVERSION_TYPES = {converters[n].key : n \in 1..Len(converters)}
    /\ CONVERSION_TYPES = {calls[n].id : n \in 1..Len(calls)}
    /\ \A n \in 1..Len(sent) :
           (sent[n].action = "CONVERT_SELECTION") =>
               getConverter(converters, sent[n].conversionType) # Undefined
    /\ pc # "threw"
    /\ response # NotConverted("Conversion error: Unknown converter")

\* the content script has converted the selection "sh" for a click on
\* latin-to-cyrillic and answered with U+0448
C30_Witness ==
    /\ hpc = "responded" /\ pc = "returned"
    /\ click.menuItemId = "latin-to-cyrillic"
    /\ sent[Len(sent)] = ConvertSelectionMessage("latin-to-cyrillic", click.selectionText)
    /\ selectedText = <<115, 104>>
    /\ response = Converted(<<1096>>)

=============================================================================
